---- MODULE Spec2Model ----
(***************************************************************************)
(* Model of the TTS backend layer of abogen: the engine registry/factory   *)
(* (abogen/tts_backends/__init__.py), the reference-clone adapter and its  *)
(* text chunker (f5_tts_backend.py) and the catalog adapter                *)
(* (kokoro_backend.py).                                                    *)
(*                                                                         *)
(* Text representation.  A text is a sequence of tokens:                   *)
(*   SP   one blank character,                                             *)
(*   NL   one newline character,                                           *)
(*   DOT  one sentence-terminal punctuation character ([.!?]),             *)
(*   n>0  a run of n one-letter words separated by single blanks           *)
(*        ("a b c" is the token 3); it starts and ends with a letter.      *)
(* Every string operation below is computed on that representation exactly *)
(* as Python computes it on the characters the tokens stand for.           *)
(***************************************************************************)
EXTENDS Integers, Sequences, FiniteSets, TLC

\* ------------------------------------------------------------------------
\* Bounds of the model
\* ------------------------------------------------------------------------
MaxTextLen == 6
MaxPulls == 4
MaxPipeItems == 2

\* ------------------------------------------------------------------------
\* Characters and Python string primitives
\* ------------------------------------------------------------------------
SP == 0
NL == -2
DOT == -1

max_words_per_chunk == 200

\* word runs that put word counts just below, at and above the budget
WordRuns == {1, max_words_per_chunk - 1, max_words_per_chunk + 1}

Alphabet == {SP, NL, DOT} \cup WordRuns

\* str.isspace / the regex class \s
isspace(c) == c \in {SP, NL}

\* str.lstrip, str.rstrip, str.strip
RECURSIVE lstrip(_)
lstrip(s) ==
    IF s # <<>> /\ isspace(Head(s)) THEN lstrip(Tail(s)) ELSE s

RECURSIVE rstrip(_)
rstrip(s) ==
    IF s # <<>> /\ isspace(s[Len(s)]) THEN rstrip(SubSeq(s, 1, Len(s) - 1)) ELSE s

strip(s) == rstrip(lstrip(s))

\* len(s.split()): the number of maximal runs of non-blank characters;
\* inWord says whether the character before s is non-blank
RECURSIVE CountWords(_, _)
CountWords(s, inWord) ==
    IF s = <<>> THEN 0
    ELSE LET c == Head(s) IN
         IF isspace(c) THEN CountWords(Tail(s), FALSE)
         ELSE (IF inWord THEN 0 ELSE 1) + (IF c > 0 THEN c - 1 ELSE 0)
              + CountWords(Tail(s), TRUE)

word_count(s) == CountWords(s, FALSE)

\* " ".join(list)
RECURSIVE join(_)
join(list) ==
    IF list = <<>> THEN <<>>
    ELSE IF Len(list) = 1 THEN Head(list)
    ELSE Head(list) \o <<SP>> \o join(Tail(list))

\* re.split(r'(?<=[.!?])\s+', s): cut at every maximal whitespace run that
\* directly follows a terminal punctuation character; prev is the character
\* before s, cur the piece collected so far
RECURSIVE SentenceSplit(_, _, _)
SentenceSplit(s, prev, cur) ==
    IF s = <<>> THEN <<cur>>
    ELSE IF isspace(Head(s)) /\ prev = DOT
         THEN <<cur>> \o SentenceSplit(lstrip(s), SP, <<>>)
         ELSE SentenceSplit(Tail(s), Head(s), Append(cur, Head(s)))

sentence_pattern(s) == SentenceSplit(s, SP, <<>>)

\* re.split(r'\n+', s): cut at every maximal run of newlines
RECURSIVE SkipNewlines(_)
SkipNewlines(s) ==
    IF s # <<>> /\ Head(s) = NL THEN SkipNewlines(Tail(s)) ELSE s

RECURSIVE NewlineSplit(_, _)
NewlineSplit(s, cur) ==
    IF s = <<>> THEN <<cur>>
    ELSE IF Head(s) = NL
         THEN <<cur>> \o NewlineSplit(SkipNewlines(s), <<>>)
         ELSE NewlineSplit(Tail(s), Append(cur, Head(s)))

\* re.split('\n', s): cut at every single newline
RECURSIVE EachNewlineSplit(_, _)
EachNewlineSplit(s, cur) ==
    IF s = <<>> THEN <<cur>>
    ELSE IF Head(s) = NL
         THEN <<cur>> \o EachNewlineSplit(Tail(s), <<>>)
         ELSE EachNewlineSplit(Tail(s), Append(cur, Head(s)))

\* the split patterns a caller passes: None, the empty string, r'\n+' (a
\* backslash, an n and a plus sign) and '\n' (the newline character)
SplitPatterns == {"None", "", "\\n+", "\n"}

re_split(pattern, s) ==
    IF pattern = "\\n+" THEN NewlineSplit(s, <<>>)
    ELSE IF pattern = "\n" THEN EachNewlineSplit(s, <<>>)
    ELSE sentence_pattern(s)

\* variant: [c.strip() for c in chunks], blank pieces kept
StripNonBlank_KeepsBlank(pieces) == [k \in 1..Len(pieces) |-> strip(pieces[k])]

\* [c.strip() for c in chunks if c.strip()]
RECURSIVE StripNonBlank(_)
StripNonBlank(pieces) ==
    IF pieces = <<>> THEN <<>>
    ELSE IF strip(Head(pieces)) # <<>>
         THEN <<strip(Head(pieces))>> \o StripNonBlank(Tail(pieces))
         ELSE StripNonBlank(Tail(pieces))

\* ------------------------------------------------------------------------
\* F5TTSBackend._split_text
\* ------------------------------------------------------------------------
\* variant: a chunk is closed when the sentence would bring it to the limit
OverBudget_AtLimit(current_word_count, wc, current_chunk) ==
    current_word_count + wc >= max_words_per_chunk /\ current_chunk # <<>>

\* variant: the words of the sentence to add are not counted
OverBudget_SentenceNotCounted(current_word_count, wc, current_chunk) ==
    current_word_count > max_words_per_chunk /\ current_chunk # <<>>

\* line 338: adding this sentence exceeds the limit and the chunk has content
OverBudget(current_word_count, wc, current_chunk) ==
    current_word_count + wc > max_words_per_chunk /\ current_chunk # <<>>

\* variant: the sentence that closes a chunk is not carried over
NewChunk_Empty(sentence) == <<>>

\* line 340: current_chunk = [sentence]
NewChunk(sentence) == <<sentence>>

\* the loop over the sentences, lines 328-348
RECURSIVE SplitLoop(_, _, _, _)
SplitLoop(sentences, chunks, current_chunk, current_word_count) ==
    IF sentences = <<>>
    THEN IF current_chunk # <<>> THEN Append(chunks, join(current_chunk)) ELSE chunks
    ELSE LET sentence == strip(Head(sentences))
             rest == Tail(sentences)
             wc == word_count(sentence)
         IN IF sentence = <<>>
            THEN SplitLoop(rest, chunks, current_chunk, current_word_count)
            ELSE IF OverBudget(current_word_count, wc, current_chunk)
                 THEN SplitLoop(rest, Append(chunks, join(current_chunk)),
                                NewChunk(sentence), wc)
                 ELSE SplitLoop(rest, chunks, Append(current_chunk, sentence),
                                current_word_count + wc)

\* variant: the word budget is applied whatever the split pattern
split_text_AlwaysBudget(text, split_pattern) ==
    SplitLoop(sentence_pattern(text), <<>>, <<>>, 0)

split_text(text, split_pattern) ==
    IF split_pattern \notin {"None", ""}
    THEN StripNonBlank(re_split(split_pattern, text))
    ELSE SplitLoop(sentence_pattern(text), <<>>, <<>>, 0)

\* ------------------------------------------------------------------------
\* Python values shared by the adapters and the factory
\* ------------------------------------------------------------------------
None == "<None>"

\* the exception types the wrapped libraries raise; all derive from Exception
ExcTypes == {"ImportError", "ModuleNotFoundError", "RuntimeError", "OSError"}

\* isinstance(e, ImportError): ModuleNotFoundError derives from ImportError
IsImportError(t) == t \in {"ImportError", "ModuleNotFoundError"}

\* how an import, a library constructor or a library call can end
Outcomes == {"ok"} \cup ExcTypes

\* how the import statement of a _check_dependencies probe can end
ProbeOutcomes == {"ok", "ImportError", "OSError"}

NoCause == [type |-> "none", msg |-> <<>>]
NoExc == [type |-> "none", msg |-> <<>>, cause |-> NoCause]

\* str(e) of an exception raised inside a wrapped library
LibraryMsg(t) == <<"<message of the library's ", t, ">">>

\* an exception of type t raised by a wrapped library
LibraryExc(t) == [type |-> t, msg |-> LibraryMsg(t), cause |-> NoCause]

\* raise T(msg) and raise T(msg) from e
Raise(t, msg) == [type |-> t, msg |-> msg, cause |-> NoCause]

\* variant: the "from e" is dropped
RaiseFrom_NoCause(t, msg, e) == [type |-> t, msg |-> msg, cause |-> NoCause]

RaiseFrom(t, msg, e) == [type |-> t, msg |-> msg, cause |-> [type |-> e.type, msg |-> e.msg]]

\* a message (a sequence of fragments) contains the fragments of part, adjacent
Contains(msg, part) ==
    \E i \in 0..(Len(msg) - Len(part)) :
        \A j \in 1..Len(part) : msg[i + j] = part[j]

\* a keyword mapping **kwargs is a record over every key a caller may pass;
\* a key that is not passed holds Absent
Absent == "<absent>"

NoKwargs ==
    [reference_audio |-> Absent, reference_text |-> Absent, model_name |-> Absent,
     nfe_step |-> Absent, speed |-> Absent, repo_id |-> Absent,
     kpipeline_class |-> Absent, unknown_key |-> Absent]

\* the value a constructor parameter takes: the keyword passed or its default
Get(kwargs, key, default) ==
    IF kwargs[key] = Absent THEN default ELSE kwargs[key]

\* the sample rate of a wrapped model that exposes none
NoRate == 0

\* lib_rate is state of the wrapped model the adapter holds: the rate
\* f5tts.infer returns with the audio, the pipeline's sample_rate attribute
NoAdapter ==
    [cls |-> "none", lang_code |-> None, device |-> None, repo_id |-> None,
     model_name |-> None, default_ref_audio_path |-> None, default_ref_text |-> None,
     nfe_step |-> None, default_speed |-> None, lib_rate |-> NoRate]

\* ------------------------------------------------------------------------
\* KokoroBackend.__init__
\* ------------------------------------------------------------------------
\* env.kokoro_import is how "from kokoro import KPipeline" ends,
\* env.kpipeline how KPipeline(...) ends, env.sample_rate is the rate of
\* the model that gets loaded
KokoroBackend_init(lang_code, device, kwargs, env) ==
    LET adapter ==
            [cls |-> "KokoroBackend", lang_code |-> lang_code, device |-> device,
             repo_id |-> Get(kwargs, "repo_id", "hexgrad/Kokoro-82M"),
             model_name |-> None, default_ref_audio_path |-> None,
             default_ref_text |-> None, nfe_step |-> None, default_speed |-> None,
             lib_rate |-> env.sample_rate]
        pipeline ==
            IF env.kpipeline = "ok"
            THEN [ok |-> TRUE, adapter |-> adapter, exc |-> NoExc]
            ELSE [ok |-> FALSE, adapter |-> NoAdapter, exc |-> LibraryExc(env.kpipeline)]
    IN IF Get(kwargs, "kpipeline_class", None) # None THEN pipeline
       ELSE IF env.kokoro_import = "ok" THEN pipeline
       ELSE IF IsImportError(env.kokoro_import)
            THEN [ok |-> FALSE, adapter |-> NoAdapter,
                  exc |-> Raise("ImportError",
                                <<"Kokoro not installed. Install with: ", "pip install kokoro">>)]
            ELSE [ok |-> FALSE, adapter |-> NoAdapter, exc |-> LibraryExc(env.kokoro_import)]

\* ------------------------------------------------------------------------
\* F5TTSBackend.__init__
\* ------------------------------------------------------------------------
\* env.f5_import is how "from f5_tts.api import F5TTS" ends,
\* env.f5_load how F5TTS(...) ends
F5TTSBackend_init(lang_code, device, kwargs, env) ==
    LET reference_audio == Get(kwargs, "reference_audio", None)
        reference_text == Get(kwargs, "reference_text", None)
        adapter ==
            [cls |-> "F5TTSBackend", lang_code |-> lang_code, device |-> device,
             repo_id |-> None,
             model_name |-> Get(kwargs, "model_name", "F5-TTS"),
             default_ref_audio_path |-> reference_audio,
             default_ref_text |-> IF reference_text \in {None, ""} THEN "" ELSE reference_text,
             nfe_step |-> Get(kwargs, "nfe_step", "32"),
             default_speed |-> Get(kwargs, "speed", "1.0"),
             lib_rate |-> env.sample_rate]
    IN IF env.f5_import # "ok"
       THEN IF IsImportError(env.f5_import)
            THEN [ok |-> FALSE, adapter |-> NoAdapter,
                  exc |-> Raise("ImportError",
                                <<"F5-TTS not installed. Install with:\n  ", "pip install f5-tts",
                                  "\nOr from source:\n  git clone https://github.com/SWivid/F5-TTS.git\n  cd F5-TTS && pip install -e .\n",
                                  "Error: ">> \o LibraryMsg(env.f5_import))]
            ELSE [ok |-> FALSE, adapter |-> NoAdapter, exc |-> LibraryExc(env.f5_import)]
       ELSE IF env.f5_load # "ok"
            THEN [ok |-> FALSE, adapter |-> NoAdapter,
                  exc |-> Raise("RuntimeError",
                                <<"Failed to initialize F5-TTS. This could be due to:\n  - Missing model files (will auto-download on first run)\n  - Insufficient GPU memory (try device='cpu' or reduce batch size)\n  - Missing dependencies (ensure torch and torchaudio installed)\n",
                                  "Error: ">> \o LibraryMsg(env.f5_load))]
            ELSE [ok |-> TRUE, adapter |-> adapter, exc |-> NoExc]

\* the constructor of an engine class a caller registered itself;
\* env.plugin is how it ends
Plugin_init(cls, lang_code, device, kwargs, env) ==
    IF env.plugin = "ok"
    THEN [ok |-> TRUE,
          adapter |-> [NoAdapter EXCEPT !.cls = cls, !.lang_code = lang_code, !.device = device],
          exc |-> NoExc]
    ELSE [ok |-> FALSE, adapter |-> NoAdapter, exc |-> LibraryExc(env.plugin)]

\* the keyword parameters each adapter's __init__ names, of those modelled;
\* any other keyword lands in its **kwargs
Recognized(cls) ==
    IF cls = "KokoroBackend" THEN {"repo_id", "kpipeline_class"}
    ELSE IF cls = "F5TTSBackend"
         THEN {"reference_audio", "reference_text", "model_name", "nfe_step", "speed"}
         ELSE {}

\* variant: the constructors have no **kwargs, a keyword they do not name
\* is a TypeError
engine_class_RejectsUnknown(cls, lang_code, device, kwargs, env) ==
    IF \E k \in DOMAIN kwargs : kwargs[k] # Absent /\ k \notin Recognized(cls)
    THEN [ok |-> FALSE, adapter |-> NoAdapter,
          exc |-> Raise("TypeError", <<"__init__() got an unexpected keyword argument">>)]
    ELSE CASE cls = "KokoroBackend" -> KokoroBackend_init(lang_code, device, kwargs, env)
           [] cls = "F5TTSBackend" -> F5TTSBackend_init(lang_code, device, kwargs, env)
           [] OTHER -> Plugin_init(cls, lang_code, device, kwargs, env)

\* engine_class(lang_code=lang_code, device=device, **kwargs)
engine_class(cls, lang_code, device, kwargs, env) ==
    CASE cls = "KokoroBackend" -> KokoroBackend_init(lang_code, device, kwargs, env)
      [] cls = "F5TTSBackend" -> F5TTSBackend_init(lang_code, device, kwargs, env)
      [] OTHER -> Plugin_init(cls, lang_code, device, kwargs, env)

\* ------------------------------------------------------------------------
\* Registry and factory (abogen/tts_backends/__init__.py)
\* ------------------------------------------------------------------------
ENGINE_REGISTRY ==
    << [name |-> "kokoro", cls |-> "KokoroBackend"],
       [name |-> "f5_tts", cls |-> "F5TTSBackend"] >>

\* ENGINE_REGISTRY.keys(), in insertion order
keys(reg) == [i \in 1..Len(reg) |-> reg[i].name]

InRegistry(reg, name) == \E i \in 1..Len(reg) : reg[i].name = name

\* ENGINE_REGISTRY[engine_name]
Lookup(reg, name) == reg[CHOOSE i \in 1..Len(reg) : reg[i].name = name].cls

\* variant: only the first name is listed
comma_join_FirstOnly(names) ==
    IF names = <<>> THEN <<>> ELSE <<Head(names)>>

\* ", ".join(names)
RECURSIVE comma_join(_)
comma_join(names) ==
    IF names = <<>> THEN <<>>
    ELSE IF Len(names) = 1 THEN names
    ELSE <<Head(names), ", ">> \o comma_join(Tail(names))

install_instructions ==
    [kokoro |-> <<"pip install kokoro">>,
     f5_tts |-> <<"pip install f5-tts",
                  "\n  Or from source: git clone https://github.com/SWivid/F5-TTS.git && cd F5-TTS && pip install -e .">>]

\* variant: the per-engine table is not consulted
instruction_GenericOnly(engine_name) ==
    <<"pip install abogen[", engine_name, "]">>

\* install_instructions.get(engine_name, f"pip install abogen[{engine_name}]")
instruction(engine_name) ==
    IF engine_name \in DOMAIN install_instructions
    THEN install_instructions[engine_name]
    ELSE <<"pip install abogen[", engine_name, "]">>

\* the engine classes: the two of the static table, and classes a caller
\* registers itself, with and without a _check_dependencies probe
PluginClasses == {"ProbedPlugin", "PlainPlugin"}
Classes == {"KokoroBackend", "F5TTSBackend"} \cup PluginClasses

NoProbe == [c \in Classes |-> "unused"]

\* the record of one call of the factory module: the arguments, the registry
\* keys at the call, what the call did (constructor invocations and the
\* exception the constructor raised, probes run) and how it ended
NoEnv ==
    [kokoro_import |-> "unused", kpipeline |-> "unused", f5_import |-> "unused",
     f5_load |-> "unused", plugin |-> "unused", sample_rate |-> NoRate]

NoArgs == [lang_code |-> None, device |-> None, kwargs |-> NoKwargs, env |-> NoEnv]

NoCall ==
    [op |-> "none", name |-> None, args |-> NoArgs, keys |-> <<>>, status |-> "none",
     exc |-> NoExc, ctor_exc |-> NoExc, adapter |-> NoAdapter, ctor_calls |-> 0,
     result |-> <<>>, probed |-> <<>>, probe |-> NoProbe]

create_tts_engine(reg, engine_name, lang_code, device, kwargs, env) ==
    LET call == [NoCall EXCEPT !.op = "create_tts_engine", !.name = engine_name,
                               !.args = [lang_code |-> lang_code, device |-> device,
                                         kwargs |-> kwargs, env |-> env],
                               !.keys = keys(reg)] IN
    IF ~InRegistry(reg, engine_name)
    THEN [call EXCEPT !.status = "raised",
                      !.exc = Raise("ValueError",
                                    <<"Unknown TTS engine '", engine_name, "'.\n", "Available engines: ">>
                                    \o comma_join(keys(reg))
                                    \o <<"\n\nTo add a new engine, register it in ENGINE_REGISTRY.">>)]
    ELSE LET built == engine_class(Lookup(reg, engine_name), lang_code, device, kwargs, env)
             e == built.exc
         IN IF built.ok
            THEN [call EXCEPT !.status = "returned", !.adapter = built.adapter, !.ctor_calls = 1]
            ELSE IF IsImportError(e.type)
                 THEN [call EXCEPT !.status = "raised", !.ctor_calls = 1, !.ctor_exc = e,
                           !.exc = RaiseFrom("ImportError",
                                      <<"Failed to load '", engine_name, "' TTS engine.\n\n",
                                        "Missing dependencies: ">> \o e.msg
                                      \o <<"\n\nTo fix, install the required packages:\n  ">>
                                      \o instruction(engine_name) \o <<"\n">>, e)]
                 ELSE [call EXCEPT !.status = "raised", !.ctor_calls = 1, !.ctor_exc = e,
                           !.exc = RaiseFrom("RuntimeError",
                                      <<"Failed to initialize '", engine_name, "' TTS engine: ">>
                                      \o e.msg, e)]

\* hasattr(engine_class, '_check_dependencies')
HasProbe(cls) == cls # "PlainPlugin"

\* the loop of get_available_engines from entry i on; probe[cls] is how
\* cls._check_dependencies() ends
RECURSIVE AvailableLoop(_, _, _, _, _)
AvailableLoop(reg, i, available, probed, probe) ==
    LET call == [NoCall EXCEPT !.op = "get_available_engines", !.keys = keys(reg),
                               !.probe = probe] IN
    IF i > Len(reg)
    THEN [call EXCEPT !.status = "returned", !.result = available, !.probed = probed]
    ELSE LET name == reg[i].name
             cls == reg[i].cls
         IN IF ~HasProbe(cls)
            THEN AvailableLoop(reg, i + 1, Append(available, name), probed, probe)
            ELSE IF probe[cls] = "ok"
                 THEN AvailableLoop(reg, i + 1, Append(available, name), Append(probed, name), probe)
                 ELSE IF IsImportError(probe[cls])
                      THEN AvailableLoop(reg, i + 1, available, Append(probed, name), probe)
                      ELSE [call EXCEPT !.status = "raised", !.result = <<>>,
                                        !.probed = Append(probed, name),
                                        !.exc = LibraryExc(probe[cls])]

get_available_engines(reg, probe) == AvailableLoop(reg, 1, <<>>, <<>>, probe)

\* ------------------------------------------------------------------------
\* Synthesis: the result type and the two adapters' __call__ generators
\* ------------------------------------------------------------------------
sample_rate_default == 24000
ExcerptLen == 100

\* how one call into a wrapped model can end: audio returned, empty audio
\* returned, an exception, and for the catalog pipeline only: a result whose
\* graphemes and tokens are None, a result without these attributes, and
\* the end of the underlying stream
LibOutcomes ==
    {"ok", "empty", "null_lists", "no_lists", "end", "RuntimeError", "OSError", "ValueError"}

\* the outcomes that are an exception of the wrapped model
LibErrors == {"RuntimeError", "OSError", "ValueError"}

\* the outcomes that are a result of the wrapped model
Results == {"ok", "empty", "null_lists", "no_lists"}

\* None where a list is expected, and the value of an attribute an object
\* does not have; no character has these codes
NoneList == <<-3>>
NoAttr == <<-4>>

\* variant: the dataclass has no __post_init__
TTSResult_NoPostInit(audio, sample_rate, graphemes, tokens) ==
    [audio |-> audio, sample_rate |-> sample_rate,
     graphemes |-> graphemes, tokens |-> tokens]

\* TTSResult(audio=..., sample_rate=..., graphemes=..., tokens=...);
\* __post_init__ replaces a None graphemes or tokens by an empty list
TTSResult(audio, sample_rate, graphemes, tokens) ==
    [audio |-> audio, sample_rate |-> sample_rate,
     graphemes |-> IF graphemes = NoneList THEN <<>> ELSE graphemes,
     tokens |-> IF tokens = NoneList THEN <<>> ELSE tokens]

\* the audio a model returns for a text: what it renders and how many
\* samples it holds (0: none, 1: some)
Audio(of, outcome) == [of |-> of, samples |-> IF outcome = "empty" THEN 0 ELSE 1]

\* the n-th result of the catalog pipeline's stream
PipelineResult(n, outcome) ==
    [audio |-> Audio(n, outcome),
     graphemes |-> CASE outcome = "null_lists" -> NoneList
                     [] outcome = "no_lists" -> NoAttr
                     [] OTHER -> <<n>>,
     tokens |-> CASE outcome = "null_lists" -> NoneList
                  [] outcome = "no_lists" -> NoAttr
                  [] OTHER -> <<n, n>>]

\* hasattr(result, name)
hasattr(result, name) == result[name] # NoAttr

\* the number of characters a token stands for
CharLen(c) == IF c > 0 THEN 2 * c - 1 ELSE 1

\* s[:n]
RECURSIVE Slice(_, _)
Slice(s, n) ==
    IF s = <<>> \/ n = 0 THEN <<>>
    ELSE LET c == Head(s) IN
         IF CharLen(c) <= n THEN <<c>> \o Slice(Tail(s), n - CharLen(c))
         ELSE <<(n + 1) \div 2>> \o (IF n % 2 = 0 THEN <<SP>> ELSE <<>>)

\* a generator object: the arguments of the call, the position of the body
\* (created: not started; suspended: at the yield; done: returned;
\* failed: raised; closed: closed by the consumer) and the body's locals
NoGen ==
    [state |-> "none", cls |-> "none", text |-> <<>>, voice |-> None, speed |-> None,
     split_pattern |-> "None", ref_audio_path |-> None, ref_text |-> None,
     chunks |-> <<>>, i |-> 0, exc |-> NoExc]

\* calling an adapter only creates the generator object
NewGen(self, text, voice, speed, split_pattern) ==
    [NoGen EXCEPT !.state = "created", !.cls = self.cls, !.text = text, !.voice = voice,
                  !.speed = speed, !.split_pattern = split_pattern]

\* Path(p).exists() on the file system fs
exists(fs, p) == p \in fs

\* variant: the configured default is preferred to the voice argument
ResolveReference_DefaultFirst(self, voice, fs) ==
    IF self.default_ref_audio_path \notin {None, ""} /\ exists(fs, self.default_ref_audio_path)
    THEN [ok |-> TRUE, ref_audio_path |-> self.default_ref_audio_path,
          ref_text |-> self.default_ref_text]
    ELSE IF voice \notin {None, ""} /\ exists(fs, voice)
         THEN [ok |-> TRUE, ref_audio_path |-> voice, ref_text |-> ""]
         ELSE [ok |-> FALSE, ref_audio_path |-> None, ref_text |-> None]

\* F5TTSBackend.__call__, lines 196-215: which reference audio to use
ResolveReference(self, voice, fs) ==
    IF voice \notin {None, ""} /\ exists(fs, voice)
    THEN [ok |-> TRUE, ref_audio_path |-> voice, ref_text |-> ""]
    ELSE IF self.default_ref_audio_path \notin {None, ""}
            /\ exists(fs, self.default_ref_audio_path)
         THEN [ok |-> TRUE, ref_audio_path |-> self.default_ref_audio_path,
               ref_text |-> self.default_ref_text]
         ELSE [ok |-> FALSE, ref_audio_path |-> None, ref_text |-> None]

\* variant: a missing reference is passed on to the model instead of raised
NoReference_PassedOn(g) == [g EXCEPT !.ref_audio_path = None, !.ref_text = ""]

\* lines 205-215: raise ValueError("F5-TTS requires reference audio. ...")
NoReference(g) ==
    [g EXCEPT !.state = "failed",
              !.exc = Raise("ValueError",
                            <<"F5-TTS requires reference audio. Please provide:\n  1. 'voice' parameter as path to reference audio file, OR\n  2. 'reference_audio' in backend initialization\n">>)]

\* the record of one call into a wrapped model
InferCall(callee, ref_file, ref_text, gen_text, voice, speed, split_pattern, outcome) ==
    [callee |-> callee, ref_file |-> ref_file, ref_text |-> ref_text,
     gen_text |-> gen_text, voice |-> voice, speed |-> speed,
     split_pattern |-> split_pattern, outcome |-> outcome]

\* self.f5tts.infer(ref_file=..., ref_text=..., gen_text=chunk, speed=speed, ...)
infer(g, chunk, outcome) ==
    InferCall("f5tts.infer", g.ref_audio_path, g.ref_text, chunk, None, g.speed,
              None, outcome)

\* variant: the chunk index is reported 0-based
SynthesisFailed_ZeroBased(i, total_chunks, chunk, e) ==
    Raise("RuntimeError",
          <<"F5-TTS synthesis failed on chunk ", ToString(i - 1), "/",
            ToString(total_chunks), ":\n  Text: ", ToString(Slice(chunk, ExcerptLen)),
            "...\n  Error: ">> \o e.msg)

\* lines 283-289: the RuntimeError raised for a failing chunk
SynthesisFailed(i, total_chunks, chunk, e) ==
    Raise("RuntimeError",
          <<"F5-TTS synthesis failed on chunk ", ToString(i), "/",
            ToString(total_chunks), ":\n  Text: ", ToString(Slice(chunk, ExcerptLen)),
            "...\n  Error: ">> \o e.msg)

\* the next index after i of a chunk that is not blank (lines 226-228),
\* Len(chunks) + 1 when there is none
RECURSIVE NextChunk(_, _)
NextChunk(chunks, i) ==
    IF i >= Len(chunks) THEN Len(chunks) + 1
    ELSE IF strip(chunks[i + 1]) # <<>> THEN i + 1
    ELSE NextChunk(chunks, i + 1)

\* variant: the model is also run on the chunk after the one asked for
ModelCalls_Prefetch(g, j, outcome) ==
    <<infer(g, g.chunks[j], outcome)>>
    \o (IF NextChunk(g.chunks, j) <= Len(g.chunks)
        THEN <<infer(g, g.chunks[NextChunk(g.chunks, j)], outcome)>> ELSE <<>>)

\* the calls into the model made while producing the element for chunk j
ModelCalls(g, j, outcome) == <<infer(g, g.chunks[j], outcome)>>

\* variant: the graphemes are the words of the chunk
list_Words(chunk) == SelectSeq(chunk, LAMBDA c : ~isspace(c))

\* line 269, list(chunk): the characters of the chunk, one element each
list(chunk) == [k \in 1..Len(chunk) |-> chunk[k]]

\* variant: the speed is applied by changing the rate of the result
ResultRate_BySpeed(g, sample_rate) ==
    IF g.speed = "1.5" THEN sample_rate + sample_rate \div 2 ELSE sample_rate

\* line 273: the result carries the rate that infer returned with the audio
ResultRate(g, sample_rate) == sample_rate

\* the loop of lines 226-289 from the chunk after g.i up to the next yield,
\* the end of the loop or the raise; outcome is how infer ends
F5Loop(self, g, outcome) ==
    LET j == NextChunk(g.chunks, g.i)
        total_chunks == Len(g.chunks)
    IN IF j > total_chunks
       THEN [gen |-> [g EXCEPT !.state = "done", !.i = total_chunks],
             yielded |-> <<>>, calls |-> <<>>]
       ELSE LET chunk == g.chunks[j] IN
            IF outcome \in Results
            THEN [gen |-> [g EXCEPT !.state = "suspended", !.i = j],
                  yielded |-> <<TTSResult(Audio(chunk, outcome),
                                          ResultRate(g, self.lib_rate), list(chunk),
                                          <<>>)>>,
                  calls |-> ModelCalls(g, j, outcome)]
            ELSE [gen |-> [g EXCEPT !.state = "failed", !.i = j,
                              !.exc = SynthesisFailed(j, total_chunks, chunk,
                                                      LibraryExc(outcome))],
                  yielded |-> <<>>, calls |-> ModelCalls(g, j, outcome)]

\* variant: a generator that has returned starts over at the first chunk
F5Resume_Rewinds(self, g, fs, outcome) ==
    IF g.state = "created"
    THEN LET ref == ResolveReference(self, g.voice, fs) IN
         IF ~ref.ok
         THEN [gen |-> NoReference(g), yielded |-> <<>>, calls |-> <<>>]
         ELSE F5Loop(self, [g EXCEPT !.ref_audio_path = ref.ref_audio_path,
                                     !.ref_text = ref.ref_text,
                                     !.chunks = split_text(g.text, g.split_pattern)],
                     outcome)
    ELSE IF g.state = "suspended" THEN F5Loop(self, g, outcome)
    ELSE IF g.state = "done" THEN F5Loop(self, [g EXCEPT !.i = 0], outcome)
    ELSE [gen |-> g, yielded |-> <<>>, calls |-> <<>>]

\* one next() on the generator of F5TTSBackend.__call__
F5Resume(self, g, fs, outcome) ==
    IF g.state = "created"
    THEN LET ref == ResolveReference(self, g.voice, fs) IN
         IF ~ref.ok
         THEN [gen |-> NoReference(g), yielded |-> <<>>, calls |-> <<>>]
         ELSE F5Loop(self, [g EXCEPT !.ref_audio_path = ref.ref_audio_path,
                                     !.ref_text = ref.ref_text,
                                     !.chunks = split_text(g.text, g.split_pattern)],
                     outcome)
    ELSE IF g.state = "suspended" THEN F5Loop(self, g, outcome)
    ELSE [gen |-> g, yielded |-> <<>>, calls |-> <<>>]

\* variant: the pipeline's own rate is never looked at
PipelineRate_AlwaysDefault(self) == sample_rate_default

\* line 121: getattr(self.pipeline, 'sample_rate', 24000)
PipelineRate(self) ==
    IF self.lib_rate = NoRate THEN sample_rate_default ELSE self.lib_rate

\* one next() on the generator of KokoroBackend.__call__, lines 109-128:
\* the pipeline's own generator is advanced once; outcome is how that ends
KokoroResume(self, g, outcome) ==
    IF g.state \in {"created", "suspended"}
    THEN LET call == InferCall("pipeline", None, None, g.text, g.voice, g.speed,
                               g.split_pattern, outcome)
         IN IF outcome = "end"
            THEN [gen |-> [g EXCEPT !.state = "done"], yielded |-> <<>>, calls |-> <<call>>]
            ELSE IF outcome \in Results
                 THEN LET result == PipelineResult(g.i + 1, outcome) IN
                      [gen |-> [g EXCEPT !.state = "suspended", !.i = g.i + 1],
                       yielded |-> <<TTSResult(
                           result.audio, PipelineRate(self),
                           IF hasattr(result, "graphemes") THEN result.graphemes ELSE <<>>,
                           IF hasattr(result, "tokens") THEN result.tokens ELSE <<>>)>>,
                       calls |-> <<call>>]
                 ELSE [gen |-> [g EXCEPT !.state = "failed", !.exc = LibraryExc(outcome)],
                       yielded |-> <<>>, calls |-> <<call>>]
    ELSE [gen |-> g, yielded |-> <<>>, calls |-> <<>>]

\* the voices the catalog pipeline can load, and a blend formula over them
Catalog == {"af_heart", "am_adam"}
Formula == "af_heart*0.5 + am_adam*0.5"

\* how advancing the pipeline's stream can end: a pipeline that cannot load
\* the voice it was given raises
PipelineOutcomes(g) ==
    IF g.voice \in Catalog THEN LibOutcomes ELSE LibErrors

\* variant: the body keeps the speed of the call as the new default
AfterCall_KeepsSpeed(self, g) == [self EXCEPT !.default_speed = g.speed]

\* self after a resumption of __call__: the bodies assign no attribute
AfterCall(self, g) == self

\* ------------------------------------------------------------------------
\* Voice operations of the adapters
\* ------------------------------------------------------------------------
\* the attributes each adapter class defines; neither class names a base
\* class, so nothing is inherited from the TTSBackend protocol
Methods(cls) ==
    IF cls = "KokoroBackend"
    THEN {"__init__", "_check_dependencies", "__call__", "load_single_voice",
          "supports_voice_mixing", "available_voices"}
    ELSE IF cls = "F5TTSBackend"
         THEN {"__init__", "_check_dependencies", "__call__", "_split_text",
               "supports_voice_mixing", "available_voices"}
         ELSE {}

\* the outcome of a call of a voice operation
NoAnswer ==
    [op |-> "none", arg |-> None, status |-> "none", exc |-> NoExc, value |-> <<>>]

\* what Python raises for obj.name when the class of obj defines no name
AttributeError(cls, name) ==
    Raise("AttributeError", <<"'", cls, "' object has no attribute '", name, "'">>)

\* the tensor pipeline.load_single_voice returns for a voice
Embedding(voice_name) == <<"embedding of", voice_name>>

\* how pipeline.load_single_voice can end
LoadOutcomes == {"ok", "OSError"}

\* backend.load_single_voice(voice_name)
load_single_voice(self, voice_name, outcome) ==
    LET call == [NoAnswer EXCEPT !.op = "load_single_voice", !.arg = voice_name] IN
    IF "load_single_voice" \notin Methods(self.cls)
    THEN [call EXCEPT !.status = "raised",
                      !.exc = AttributeError(self.cls, "load_single_voice")]
    ELSE IF outcome = "ok"
         THEN [call EXCEPT !.status = "returned", !.value = Embedding(voice_name)]
         ELSE [call EXCEPT !.status = "raised", !.exc = LibraryExc(outcome)]

\* the property backend.supports_voice_mixing
supports_voice_mixing(self) == self.cls = "KokoroBackend"

\* ------------------------------------------------------------------------
\* State
\* ------------------------------------------------------------------------
VARIABLES
    registry,     \* the module-level dict ENGINE_REGISTRY, in insertion order
    last,         \* the outcome of the latest call of the factory module
    adapter,      \* the adapter instance a caller holds
    fs,           \* the paths that exist on the file system
    gen,          \* the generator returned by the latest call of the adapter
    pulls,        \* the number of next() calls made on gen
    received,     \* the results the consumer received from gen, in order
    infer_log,    \* the calls into the wrapped model made for gen, in order
    answer,       \* the outcome of the latest voice operation on the adapter
    rates_seen,   \* for every result the adapter has yielded: its sample rate
                  \* and whether it belongs to gen or to an earlier call
    ck_text,      \* chunker run: the text argument
    ck_pattern,   \* chunker run: the split_pattern argument
    ck_pc,        \* chunker run: "start" before the call, "done" after it
    ck_chunks,    \* chunker run: the list returned
    jobs,         \* web server: the dict job_manager.jobs
    websockets,   \* web server: the dict job_manager.websockets
    tasks,        \* web server: the run_conversion task of each job
    conns,        \* web server: the WebSocket connections of the clients
    debug_posted  \* web server: the /api/debug/log requests served so far

fvars == <<registry, last>>
svars == <<adapter, fs, gen, pulls, received, infer_log, answer, rates_seen>>
ckvars == <<ck_text, ck_pattern, ck_pc, ck_chunks>>

wvars == <<jobs, websockets, tasks, conns, debug_posted>>

vars == <<fvars, svars, ckvars, wvars>>

\* all texts of at most n tokens
TextsUpTo(n) == UNION {[1..k -> Alphabet] : k \in 0..n}

\* the state of the parts a specification does not exercise
FactoryIdle == registry = ENGINE_REGISTRY /\ last = NoCall
ChunkerIdle == ck_text = <<>> /\ ck_pattern = "None" /\ ck_pc = "idle" /\ ck_chunks = <<>>
SynthIdle ==
    /\ adapter = NoAdapter /\ fs = {} /\ gen = NoGen
    /\ pulls = 0 /\ received = <<>> /\ infer_log = <<>>
    /\ answer = NoAnswer /\ rates_seen = {}

\* the clients that may open a WebSocket, and a connection not yet opened
Clients == {"c1", "c2"}
NoConn == [state |-> "idle", job_id |-> None, inbox |-> <<>>]
WebIdle ==
    /\ jobs = <<>> /\ websockets = <<>> /\ tasks = <<>>
    /\ conns = [c \in Clients |-> NoConn] /\ debug_posted = {}

\* ------------------------------------------------------------------------
\* Specification of the registry and factory
\* ------------------------------------------------------------------------
\* the name of an engine a caller adds to ENGINE_REGISTRY
PluginNames == {"piper"}

EngineNames == {"kokoro", "f5_tts", "unknown_engine"} \cup PluginNames
LangCodes == {"a", "b"}
Devices == {"cuda"}

\* the last is one configuration handed to whichever engine is selected:
\* keys of both engines and a key neither knows
KwargChoices ==
    { NoKwargs,
      [NoKwargs EXCEPT !.reference_audio = "default.wav", !.reference_text = "hello"],
      [NoKwargs EXCEPT !.repo_id = "custom/repo"],
      [NoKwargs EXCEPT !.kpipeline_class = "KPipeline"],
      [NoKwargs EXCEPT !.reference_audio = "default.wav", !.reference_text = "hello",
                       !.speed = "1.5", !.repo_id = "custom/repo", !.unknown_key = "x"] }

InitFactory ==
    /\ registry = ENGINE_REGISTRY
    /\ last = NoCall
    /\ SynthIdle
    /\ ChunkerIdle
    /\ WebIdle

\* ENGINE_REGISTRY[name] = cls, done by a caller that adds an engine
RegisterEngine ==
    \E name \in PluginNames, cls \in PluginClasses :
        /\ ~InRegistry(registry, name)
        /\ registry' = Append(registry, [name |-> name, cls |-> cls])
        /\ UNCHANGED <<last, svars, ckvars, wvars>>

\* a constructor loads its model after its import succeeded, so a way the
\* load fails is chosen only then
CreateEngine ==
    \E engine_name \in EngineNames, lang_code \in LangCodes, device \in Devices,
       kwargs \in KwargChoices, import \in Outcomes :
    \E load \in (IF import = "ok" THEN Outcomes ELSE {"ok"}) :
        LET env == [kokoro_import |-> import, kpipeline |-> load,
                    f5_import |-> import, f5_load |-> load, plugin |-> load,
                    sample_rate |-> sample_rate_default]
        IN /\ last' = create_tts_engine(registry, engine_name, lang_code, device, kwargs, env)
           /\ UNCHANGED <<registry, svars, ckvars, wvars>>

GetAvailableEngines ==
    \E probe \in [Classes -> ProbeOutcomes] :
        /\ last' = get_available_engines(registry, probe)
        /\ UNCHANGED <<registry, svars, ckvars, wvars>>

NextFactory == RegisterEngine \/ CreateEngine \/ GetAvailableEngines

SpecFactory == InitFactory /\ [][NextFactory]_vars

\* ------------------------------------------------------------------------
\* Factory claims
\* ------------------------------------------------------------------------
IsCreate == last.op = "create_tts_engine"
NameWasRegistered == \E i \in 1..Len(last.keys) : last.keys[i] = last.name

\* the fragment k occurs in msg somewhere after the fragment label
ListedAfter(msg, label, k) ==
    \E i, j \in 1..Len(msg) : i < j /\ msg[i] = label /\ msg[j] = k

\* the exception raised by the factory carries e as its __cause__
CausedBy(exc, e) == exc.cause = [type |-> e.type, msg |-> e.msg]

\* C1: create_tts_engine with a name that is not a key of ENGINE_REGISTRY
\* raises ValueError whose message lists every registered name (kokoro and
\* f5_tts among them), and no adapter constructor is invoked.
C1_UnknownEngineRejected ==
    (IsCreate /\ ~NameWasRegistered) =>
        /\ last.status = "raised"
        /\ last.exc.type = "ValueError"
        /\ \A i \in 1..Len(last.keys) :
              ListedAfter(last.exc.msg, "Available engines: ", last.keys[i])
        /\ ListedAfter(last.exc.msg, "Available engines: ", "kokoro")
        /\ ListedAfter(last.exc.msg, "Available engines: ", "f5_tts")
        /\ last.ctor_calls = 0
        /\ last.adapter = NoAdapter

\* an unknown name asked for while a third engine is registered
C1_Witness ==
    /\ IsCreate /\ last.name = "unknown_engine"
    /\ Len(last.keys) = 3
    /\ last.status = "raised"

\* C2: for a registered name the factory either returns the adapter its
\* constructor built or raises ImportError or RuntimeError; a constructor
\* failure that is not an ImportError is raised as RuntimeError with the
\* constructor's exception as its cause.
C2_FactoryOutcomeClassified ==
    (IsCreate /\ NameWasRegistered) =>
        /\ last.ctor_calls = 1
        /\ \/ /\ last.status = "returned"
              /\ last.ctor_exc = NoExc /\ last.exc = NoExc
              /\ last.adapter.cls = Lookup(registry, last.name)
           \/ /\ last.status = "raised"
              /\ last.ctor_exc # NoExc
              /\ last.adapter = NoAdapter
              /\ last.exc.type \in {"ImportError", "RuntimeError"}
        /\ (last.status = "raised"
              /\ last.ctor_exc.type \notin {"ImportError", "ModuleNotFoundError"}) =>
              /\ last.exc.type = "RuntimeError"
              /\ CausedBy(last.exc, last.ctor_exc)

\* the cloning adapter's constructor failed to load its model and the
\* factory wrapped the constructor's own RuntimeError
C2_Witness ==
    /\ IsCreate /\ last.name = "f5_tts"
    /\ last.status = "raised"
    /\ last.ctor_exc.type = "RuntimeError"
    /\ last.exc.type = "RuntimeError"
    /\ last.exc.cause.type = "RuntimeError"

ToFix == "\n\nTo fix, install the required packages:\n  "

\* C3: when the constructor raises an ImportError the factory raises
\* ImportError whose message gives, as the fix, the engine's entry of the
\* install table ("pip install kokoro", "pip install f5-tts") or, for a
\* registered engine without an entry, "pip install abogen[<name>]", with the
\* constructor's exception as its cause.
C3_DependencyMissingHasRemediation ==
    (IsCreate /\ last.status = "raised"
       /\ last.ctor_exc.type \in {"ImportError", "ModuleNotFoundError"}) =>
        /\ last.exc.type = "ImportError"
        /\ CausedBy(last.exc, last.ctor_exc)
        /\ last.name = "kokoro" =>
              Contains(last.exc.msg, <<ToFix, "pip install kokoro">>)
        /\ last.name = "f5_tts" =>
              Contains(last.exc.msg, <<ToFix, "pip install f5-tts">>)
        /\ last.name \notin {"kokoro", "f5_tts"} =>
              Contains(last.exc.msg, <<ToFix, "pip install abogen[", last.name, "]">>)

\* the cloning adapter's import failed
C3_Witness ==
    /\ IsCreate /\ last.name = "f5_tts"
    /\ last.status = "raised" /\ last.exc.type = "ImportError"
    /\ last.ctor_exc.type = "ImportError"

\* a registered engine without a table entry lacked a dependency
C3_FallbackReached ==
    /\ IsCreate /\ last.name = "piper"
    /\ last.status = "raised" /\ last.exc.type = "ImportError"

\* the names of the first n registry entries whose class has no probe or
\* whose probe succeeded, in registry order
RECURSIVE ProbedOk(_, _, _)
ProbedOk(reg, n, probe) ==
    IF n = 0 THEN <<>>
    ELSE ProbedOk(reg, n - 1, probe)
         \o (IF reg[n].cls = "PlainPlugin" \/ probe[reg[n].cls] = "ok"
             THEN <<reg[n].name>> ELSE <<>>)

RECURSIVE WithProbe(_, _)
WithProbe(reg, n) ==
    IF n = 0 THEN <<>>
    ELSE WithProbe(reg, n - 1)
         \o (IF reg[n].cls # "PlainPlugin" THEN <<reg[n].name>> ELSE <<>>)

\* C4: get_available_engines never raises, whatever the probes do: it
\* probes every engine that has a probe, constructs no adapter and returns
\* exactly the registered names whose probe succeeded (or that have no
\* probe), in registry order.
C4_AvailableEnginesNeverRaises ==
    last.op = "get_available_engines" =>
        /\ last.status = "returned"
        /\ last.ctor_calls = 0
        /\ last.probed = WithProbe(registry, Len(last.keys))
        /\ last.result = ProbedOk(registry, Len(last.keys), last.probe)

\* the keywords of a call without those the engine's constructor does not name
Strip(kwargs, cls) ==
    [k \in DOMAIN kwargs |-> IF k \in Recognized(cls) THEN kwargs[k] ELSE Absent]

BuiltIn == last.name \in {"kokoro", "f5_tts"}

\* the same call of the factory without the keywords the engine does not know
WithoutExtraKeys ==
    create_tts_engine(registry, last.name, last.args.lang_code, last.args.device,
                      Strip(last.args.kwargs, Lookup(registry, last.name)), last.args.env)

\* C18: a call of the factory for kokoro or f5_tts with keywords the engine's
\* constructor does not name ends as the call without them does: the same
\* adapter attributes when it returns, the same exception when it raises.
C18_UnknownKeysIgnored ==
    (IsCreate /\ BuiltIn) =>
        /\ last.status = WithoutExtraKeys.status
        /\ last.adapter = WithoutExtraKeys.adapter
        /\ last.exc = WithoutExtraKeys.exc
        /\ last.ctor_exc = WithoutExtraKeys.ctor_exc

\* the catalog adapter was built from a configuration that also holds the
\* cloning engine's keys and an unknown key, and took its own key from it
C18_Witness ==
    /\ IsCreate /\ last.name = "kokoro" /\ last.status = "returned"
    /\ last.args.kwargs.reference_audio # Absent
    /\ last.args.kwargs.unknown_key # Absent
    /\ last.adapter.repo_id = "custom/repo"

\* ------------------------------------------------------------------------
\* Specification of synthesis on one adapter instance
\* ------------------------------------------------------------------------
Paths == {"voice.wav", "default.wav"}
Voices == {"", "voice.wav", "af_heart", Formula}
Speeds == {"1.0", "1.5"}
SynthPatterns == {"None", "\\n+"}

Long == max_words_per_chunk + 1

\* texts of no, one and three chunks; under the newline rule the last is
\* one chunk
SynthTexts ==
    { <<>>,
      <<1, DOT>>,
      <<Long, DOT, SP, Long, DOT, SP, 1>> }

OkEnv ==
    [kokoro_import |-> "ok", kpipeline |-> "ok", f5_import |-> "ok",
     f5_load |-> "ok", plugin |-> "ok", sample_rate |-> sample_rate_default]

\* the rates a loaded model can have: the cloning model's own rate; for the
\* catalog pipeline no sample_rate attribute, or one that is not the default
OtherRate == 22050
LibRates(cls) ==
    IF cls = "KokoroBackend" THEN {NoRate, OtherRate} ELSE {sample_rate_default}

SynthKwargs ==
    { NoKwargs,
      [NoKwargs EXCEPT !.reference_audio = "default.wav"],
      [NoKwargs EXCEPT !.reference_audio = "default.wav", !.reference_text = "hello"] }

\* the adapters a successful construction yields
SynthAdapters ==
    UNION { { engine_class(cls, "a", "cpu", kwargs,
                           [OkEnv EXCEPT !.sample_rate = rate]).adapter :
                kwargs \in SynthKwargs, rate \in LibRates(cls) } :
            cls \in {"KokoroBackend", "F5TTSBackend"} }

InitSynth ==
    /\ adapter \in SynthAdapters
    /\ fs \in SUBSET Paths
    /\ gen = NoGen
    /\ pulls = 0
    /\ received = <<>>
    /\ infer_log = <<>>
    /\ answer = NoAnswer
    /\ rates_seen = {}
    /\ FactoryIdle
    /\ ChunkerIdle
    /\ WebIdle

\* engine(text, voice=..., speed=..., split_pattern=...): a new generator;
\* the consumer starts to read it and drops the one it had
SynthesizeOf(texts, patterns) ==
    \E text \in texts, voice \in Voices, speed \in Speeds,
       split_pattern \in patterns :
        /\ gen' = NewGen(adapter, text, voice, speed, split_pattern)
        /\ pulls' = 0
        /\ received' = <<>>
        /\ infer_log' = <<>>
        /\ rates_seen' = {<<p[1], "an earlier call">> : p \in rates_seen}
        /\ UNCHANGED <<adapter, fs, answer, fvars, ckvars, wvars>>

Synthesize == SynthesizeOf(SynthTexts, SynthPatterns)

\* next(gen) by the consumer
Pull ==
    /\ gen.state # "none"
    /\ pulls < MaxPulls
    /\ \E outcome \in LibOutcomes :
          /\ gen.cls = "F5TTSBackend" => outcome \notin {"end", "null_lists", "no_lists"}
          /\ gen.cls = "KokoroBackend" => outcome \in PipelineOutcomes(gen)
          /\ (gen.cls = "KokoroBackend" /\ gen.i >= MaxPipeItems) => outcome \notin Results
          /\ LET r == IF gen.cls = "F5TTSBackend"
                      THEN F5Resume(adapter, gen, fs, outcome)
                      ELSE KokoroResume(adapter, gen, outcome)
             IN /\ gen' = r.gen
                /\ received' = received \o r.yielded
                /\ infer_log' = infer_log \o r.calls
                /\ rates_seen' = rates_seen
                       \cup {<<r.yielded[m].sample_rate, "this call">> :
                                m \in 1..Len(r.yielded)}
    /\ adapter' = AfterCall(adapter, gen)
    /\ pulls' = pulls + 1
    /\ UNCHANGED <<fs, answer, fvars, ckvars, wvars>>

\* the consumer stops reading: gen.close() on a generator that has not ended
Close ==
    /\ gen.state \in {"created", "suspended"}
    /\ gen' = [gen EXCEPT !.state = "closed"]
    /\ UNCHANGED <<adapter, fs, pulls, received, infer_log, answer, rates_seen,
                   fvars, ckvars, wvars>>

\* a file is created or removed by something else
FsChange ==
    \E p \in Paths :
        /\ fs' = IF p \in fs THEN fs \ {p} ELSE fs \cup {p}
        /\ UNCHANGED <<adapter, gen, pulls, received, infer_log, answer, rates_seen,
                       fvars, ckvars, wvars>>

NextSynth == Synthesize \/ Pull \/ Close \/ FsChange

SpecSynth == InitSynth /\ [][NextSynth]_vars

\* ------------------------------------------------------------------------
\* Specification of one adapter instance used for synthesis and for voice
\* operations, on texts of one and of three chunks
\* ------------------------------------------------------------------------
InstanceTexts == { <<1, DOT>>, <<Long, DOT, SP, Long, DOT, SP, 1>> }

\* backend.load_single_voice(voice_name) by a caller
LoadSingleVoice ==
    \E voice_name \in {"af_heart"}, outcome \in LoadOutcomes :
        /\ answer' = load_single_voice(adapter, voice_name, outcome)
        /\ UNCHANGED <<adapter, fs, gen, pulls, received, infer_log, rates_seen,
                       fvars, ckvars, wvars>>

\* backend.supports_voice_mixing read by a caller
SupportsVoiceMixing ==
    /\ answer' = [NoAnswer EXCEPT
                      !.op = "supports_voice_mixing", !.status = "returned",
                      !.value = IF supports_voice_mixing(adapter)
                                THEN <<"True">> ELSE <<"False">>]
    /\ UNCHANGED <<adapter, fs, gen, pulls, received, infer_log, rates_seen,
                   fvars, ckvars, wvars>>

NextInstance ==
    \/ SynthesizeOf(InstanceTexts, {"None"})
    \/ Pull
    \/ Close
    \/ FsChange
    \/ LoadSingleVoice
    \/ SupportsVoiceMixing

SpecInstance == InitSynth /\ [][NextInstance]_vars

\* ------------------------------------------------------------------------
\* Synthesis claims
\* ------------------------------------------------------------------------
IsF5 == gen.cls = "F5TTSBackend"

\* this step is a next() on the generator
PullStep == pulls' = pulls + 1

\* this step is the next() that starts the body of the cloning adapter
FirstPull == IsF5 /\ gen.state = "created" /\ PullStep

VoiceUsable == gen.voice \notin {None, ""} /\ gen.voice \in fs
DefaultUsable ==
    /\ adapter.default_ref_audio_path \notin {None, ""}
    /\ adapter.default_ref_audio_path \in fs

InvalidVoice(g) == g.state = "failed" /\ g.exc.type = "ValueError"

\* every call of the model used the reference the body resolved
ReferenceUsed(g, log) ==
    \A k \in 1..Len(log) :
        /\ log[k].ref_file = g.ref_audio_path
        /\ log[k].ref_text = g.ref_text

\* C5: when the body of a cloning-adapter call starts, an existing non-empty
\* voice path is used with an empty transcript whatever default is
\* configured; otherwise the configured default, if it exists, is used with
\* its transcript; otherwise the call fails with ValueError.  Every call of
\* the model in that synthesis uses the reference so chosen.
C5_VoiceResolutionOrder ==
    [][ /\ FirstPull =>
            IF VoiceUsable
            THEN /\ ~InvalidVoice(gen')
                 /\ gen'.ref_audio_path = gen.voice
                 /\ gen'.ref_text = ""
            ELSE IF DefaultUsable
                 THEN /\ ~InvalidVoice(gen')
                      /\ gen'.ref_audio_path = adapter.default_ref_audio_path
                      /\ gen'.ref_text = adapter.default_ref_text
                 ELSE InvalidVoice(gen')
        /\ (IsF5 /\ PullStep) => ReferenceUsed(gen', infer_log')
      ]_vars

\* the voice argument was used although a default is configured and exists
C5_Witness ==
    /\ IsF5 /\ gen.state = "suspended"
    /\ gen.voice = "voice.wav" /\ gen.ref_audio_path = "voice.wav"
    /\ adapter.default_ref_audio_path = "default.wav" /\ "default.wav" \in fs
    /\ Len(infer_log) >= 1

\* C6: a cloning-adapter call for which no reference exists (voice empty or
\* not an existing file, no existing default) fails with ValueError before
\* any work: the text is not chunked, the model is never called and nothing
\* is yielded, also on later next() calls.
C6_InvalidVoiceBeforeInference ==
    [][ (PullStep /\ ((FirstPull /\ ~VoiceUsable /\ ~DefaultUsable)
                        \/ (IsF5 /\ InvalidVoice(gen)))) =>
            /\ InvalidVoice(gen')
            /\ gen'.chunks = <<>>
            /\ infer_log' = <<>>
            /\ received' = <<>>
      ]_vars

\* the call failed for want of a reference and was pulled again
C6_Witness ==
    /\ IsF5 /\ InvalidVoice(gen)
    /\ gen.text # <<>>
    /\ pulls >= 2

SynthesisFailedState == IsF5 /\ gen.state = "failed" /\ gen.exc.type = "RuntimeError"

\* C7: when the model fails on chunk k of a cloning-adapter call, the
\* consumer has received exactly the results of chunks 1..k-1 in order and
\* then RuntimeError naming k (1-based) and an excerpt of chunk k; every
\* chunk up to k was given to the model exactly once and none after k.
C7_FailureAbortsAtChunk ==
    SynthesisFailedState =>
        LET k == Len(infer_log) IN
        /\ k \in 1..Len(gen.chunks)
        /\ infer_log[k].outcome \notin {"ok", "empty"}
        /\ \A m \in 1..k : infer_log[m].gen_text = gen.chunks[m]
        /\ \A m \in 1..(k - 1) : infer_log[m].outcome \in {"ok", "empty"}
        /\ Len(received) = k - 1
        /\ \A m \in 1..(k - 1) :
              /\ received[m].graphemes = gen.chunks[m]
              /\ received[m].audio.of = gen.chunks[m]
        /\ Contains(gen.exc.msg, <<"F5-TTS synthesis failed on chunk ", ToString(k), "/">>)
        /\ Contains(gen.exc.msg, <<":\n  Text: ", ToString(Slice(gen.chunks[k], ExcerptLen))>>)

\* the second of three chunks failed and the consumer pulled again
C7_Witness ==
    /\ SynthesisFailedState
    /\ Len(gen.chunks) = 3
    /\ Len(infer_log) = 2
    /\ Len(received) = 1
    /\ pulls >= 3

\* C8: for both adapters the model is called only inside a next(): at most
\* one call per next(), never more calls than elements requested, and a
\* consumer that holds n elements and has not asked for more (or has closed
\* the generator) has caused exactly n calls.
C8_PullBased ==
    /\ Len(infer_log) <= pulls
    /\ gen.state \in {"suspended", "closed"} => Len(infer_log) = Len(received)

\* the consumer stopped after the first of three chunks
C8_Witness ==
    /\ IsF5 /\ gen.state = "closed"
    /\ Len(gen.chunks) = 3
    /\ Len(received) = 1
    /\ Len(infer_log) = 1
    /\ pulls >= 2

\* C12: every result an adapter yields has non-empty audio and a positive
\* sample rate, whatever the wrapped model or pipeline returned for the chunk.
C12_NoDegenerateResult ==
    \A m \in 1..Len(received) :
        /\ received[m].audio.samples > 0
        /\ received[m].sample_rate > 0

\* C13: graphemes and tokens of every result an adapter yields are lists,
\* never None and never missing, also when the pipeline's result carries
\* None there or lacks the attributes.
C13_ListsNeverNull ==
    \A m \in 1..Len(received) :
        /\ received[m].graphemes \notin {NoneList, NoAttr}
        /\ received[m].tokens \notin {NoneList, NoAttr}

\* the catalog adapter passed on a result whose lists were None and one
\* that had no such attributes
C13_Witness ==
    /\ gen.cls = "KokoroBackend" /\ Len(received) = 2
    /\ infer_log[1].outcome = "null_lists" /\ received[1].tokens = <<>>
    /\ infer_log[2].outcome = "no_lists" /\ received[2].graphemes = <<>>

IsKokoro == gen.cls = "KokoroBackend"

\* the voices a blend formula names
FormulaVoices(voice) == IF voice = Formula THEN {"af_heart", "am_adam"} ELSE {}

\* C15: when the catalog adapter is given a blend formula, its body loads
\* the embedding of each voice the formula names through load_single_voice
\* and gives the pipeline their weighted combination, not the formula text.
C15_FormulaBlendedBeforeSynthesis ==
    (IsKokoro /\ gen.voice = Formula /\ pulls >= 1) =>
        /\ \A name \in FormulaVoices(gen.voice) :
              \E k \in 1..Len(infer_log) :
                  /\ infer_log[k].callee = "pipeline.load_single_voice"
                  /\ infer_log[k].voice = name
        /\ \A k \in 1..Len(infer_log) :
              infer_log[k].callee = "pipeline" => infer_log[k].voice # gen.voice

\* C16: a catalog-adapter call whose voice cannot be resolved (a name that
\* is not in the catalog, or a formula) fails with ValueError once it runs
\* and yields no result.
C16_UnknownVoiceIsInvalidVoice ==
    (IsKokoro /\ gen.voice \notin Catalog /\ pulls >= 1) =>
        /\ InvalidVoice(gen)
        /\ received = <<>>

\* C17: the catalog adapter's generator advances the pipeline's stream once
\* per next() at most, always with the text, voice, speed and split pattern
\* of the call; it yields one result per pipeline result, in the pipeline's
\* order and with the pipeline's audio, at the pipeline's sample_rate or
\* 24000 when the pipeline has no such attribute.
C17_PipelineStreamRenormalized ==
    IsKokoro =>
        /\ Len(infer_log) <= pulls
        /\ \A k \in 1..Len(infer_log) :
              /\ infer_log[k].callee = "pipeline"
              /\ infer_log[k].gen_text = gen.text
              /\ infer_log[k].voice = gen.voice
              /\ infer_log[k].speed = gen.speed
              /\ infer_log[k].split_pattern = gen.split_pattern
        /\ Len(received) = Cardinality({k \in 1..Len(infer_log) : infer_log[k].outcome \in Results})
        /\ \A m \in 1..Len(received) :
              /\ infer_log[m].outcome \in Results
              /\ received[m].audio = PipelineResult(m, infer_log[m].outcome).audio
              /\ received[m].sample_rate =
                    IF adapter.lib_rate = NoRate THEN sample_rate_default
                    ELSE adapter.lib_rate

\* a pipeline with a rate of its own gave two results and ended, for a call
\* with a split pattern and a speed that are not the defaults
C17_Witness ==
    /\ IsKokoro /\ gen.state = "done"
    /\ adapter.lib_rate = OtherRate
    /\ gen.split_pattern = "\\n+" /\ gen.speed = "1.5"
    /\ Len(received) = 2 /\ Len(infer_log) = 3
    /\ received[2].sample_rate = OtherRate

\* this step is a call of the adapter: a generator that has not started
CallStep == gen'.state = "created" /\ gen' # gen

\* C21: a call of the cloning adapter with a voice for which no reference
\* exists fails with ValueError in the call itself: the generator the call
\* hands back has already failed, before any next().
C21_InvalidVoiceOnInvocation ==
    [][ (CallStep /\ gen'.cls = "F5TTSBackend"
           /\ ~(gen'.voice \notin {None, ""} /\ gen'.voice \in fs)
           /\ ~DefaultUsable) => InvalidVoice(gen')
      ]_vars

Ended(g) == g.state \in {"done", "failed", "closed"}

\* the generator of a cloning-adapter call has run the model on a prefix of
\* its chunks, each once and in order, and has ended by the time it was
\* pulled once more than it has chunks
ForwardOnly(g, log, n) ==
    /\ Len(log) <= Len(g.chunks)
    /\ \A k \in 1..Len(log) : log[k].gen_text = g.chunks[k]
    /\ n > Len(g.chunks) => Ended(g)

\* C22: the generator of a cloning-adapter call is finite and forward-only:
\* the model is run at most once per chunk, in chunk order from the first
\* chunk of the call, and after one next() more than there are chunks the
\* generator has ended; a next() on a generator that has ended yields
\* nothing, runs no model and leaves it ended.
C22_FiniteForwardOnly ==
    [][ /\ gen'.cls = "F5TTSBackend" => ForwardOnly(gen', infer_log', pulls')
        /\ (IsF5 /\ Ended(gen) /\ PullStep) =>
              /\ gen' = gen
              /\ received' = received
              /\ infer_log' = infer_log
      ]_vars

\* all three chunks were synthesized and the consumer pulled once more
C22_Witness ==
    /\ IsF5 /\ gen.state = "done"
    /\ Len(gen.chunks) = 3 /\ Len(received) = 3
    /\ pulls = 4

\* the body of the cloning-adapter call has started and has not raised
Running(g) == /\ g.cls = "F5TTSBackend"
              /\ \/ g.state \in {"suspended", "done"}
                 \/ g.state = "closed" /\ received # <<>>

\* C24: while no inference of a cloning-adapter call has failed, the results
\* received are those of the first chunks the chunker returned, one per
\* chunk and in chunk order, each yielded in the next() that ran its
\* inference, with the characters of its chunk as graphemes and no tokens;
\* when the generator returns there is one result per chunk, none for a text
\* without sentences.
C24_OneResultPerChunk ==
    Running(gen) =>
        /\ gen.chunks = split_text(gen.text, gen.split_pattern)
        /\ Len(received) = Len(infer_log)
        /\ Len(received) <= Len(gen.chunks)
        /\ \A m \in 1..Len(received) :
              /\ infer_log[m].gen_text = gen.chunks[m]
              /\ received[m].audio.of = gen.chunks[m]
              /\ Len(received[m].graphemes) = Len(gen.chunks[m])
              /\ \A k \in 1..Len(gen.chunks[m]) :
                    received[m].graphemes[k] = gen.chunks[m][k]
              /\ received[m].tokens = <<>>
        /\ gen.state = "done" => Len(received) = Len(gen.chunks)
        /\ (gen.state = "done" /\ strip(gen.text) = <<>>) => received = <<>>

\* two of three chunks have been received, the third is not yet asked for
C24_Witness ==
    /\ Running(gen) /\ gen.state = "suspended"
    /\ Len(gen.chunks) = 3 /\ Len(received) = 2
    /\ received[2].graphemes = gen.chunks[2]

\* the generator of a call with an empty text returned without a result
C24_EmptyTextReached ==
    /\ Running(gen) /\ gen.state = "done" /\ gen.text = <<>> /\ pulls = 1

\* ------------------------------------------------------------------------
\* Voice operation claims
\* ------------------------------------------------------------------------
IsLoad == answer.op = "load_single_voice"

\* C14: load_single_voice on an adapter whose supports_voice_mixing is False
\* raises NotImplementedError and nothing else; on the catalog adapter it
\* returns the embedding the pipeline loaded for the voice.
C14_LoadSingleVoiceNotSupported ==
    IsLoad =>
        IF ~supports_voice_mixing(adapter)
        THEN answer.status = "raised" /\ answer.exc.type = "NotImplementedError"
        ELSE answer.status = "returned" => answer.value = Embedding(answer.arg)

\* C19: no call of an adapter, no next() on its generators, no
\* load_single_voice and no capability query changes the adapter's
\* attributes (lang code, device, default reference audio and transcript,
\* engine-level parameters); the model is run at the speed of the call
\* being served.
C19_ConfigurationBound ==
    [][ /\ adapter' = adapter
        /\ \A k \in 1..Len(infer_log') : infer_log'[k].speed = gen'.speed
      ]_vars

\* after a call that yielded results and a load_single_voice, a new call
\* with a voice and a speed that are not the configured defaults is served
C19_Witness ==
    /\ IsF5 /\ gen.state = "suspended" /\ pulls = 1
    /\ rates_seen # {} /\ Len(received) = 1
    /\ IsLoad
    /\ adapter.default_ref_audio_path = "default.wav" /\ gen.ref_audio_path = "voice.wav"
    /\ gen.speed # adapter.default_speed

InitChunker ==
    /\ ck_text \in TextsUpTo(MaxTextLen)
    /\ ck_pattern \in SplitPatterns
    /\ ck_pc = "start"
    /\ ck_chunks = <<>>
    /\ FactoryIdle
    /\ SynthIdle
    /\ WebIdle

SplitText ==
    /\ ck_pc = "start"
    /\ ck_chunks' = split_text(ck_text, ck_pattern)
    /\ ck_pc' = "done"
    /\ UNCHANGED <<ck_text, ck_pattern, fvars, svars, wvars>>

NextChunker == SplitText

SpecChunker == InitChunker /\ [][NextChunker]_vars

\* ------------------------------------------------------------------------
\* Chunker claims
\* ------------------------------------------------------------------------
\* the non-empty trimmed sentences of a text
SentencesOf(s) == StripNonBlank(sentence_pattern(s))

RECURSIVE Flatten(_)
Flatten(lists) ==
    IF lists = <<>> THEN <<>> ELSE Head(lists) \o Flatten(Tail(lists))

ChunkSentences(chunks) == Flatten([i \in 1..Len(chunks) |-> SentencesOf(chunks[i])])

DefaultMode == ck_pattern \in {"None", ""}

\* C9: in default mode the sentences of the returned chunks, read in chunk
\* order, are exactly the non-empty trimmed sentences of the text, each once
\* and in the original order.
C9_SentenceSequencePreserved ==
    (ck_pc = "done" /\ DefaultMode) =>
        ChunkSentences(ck_chunks) = SentencesOf(ck_text)

\* a run that closed a chunk on the budget and returned three sentences
C9_Witness ==
    /\ ck_pc = "done" /\ DefaultMode
    /\ Len(ck_chunks) >= 2
    /\ Len(SentencesOf(ck_text)) >= 3

\* C10: every chunk of the default chunker has at most 200 words unless it
\* is a single sentence that alone has more than 200 words.
C10_ChunkWithinBudget ==
    (ck_pc = "done" /\ DefaultMode) =>
        \A i \in 1..Len(ck_chunks) :
            \/ word_count(ck_chunks[i]) <= max_words_per_chunk
            \/ Len(SentencesOf(ck_chunks[i])) = 1

\* an over-long sentence kept whole between two other chunks' sentences,
\* and a chunk of exactly the budget
C10_Witness ==
    /\ ck_pc = "done" /\ DefaultMode
    /\ \E i \in 1..Len(ck_chunks) :
          /\ word_count(ck_chunks[i]) > max_words_per_chunk
          /\ Len(ck_chunks) >= 2

\* ------------------------------------------------------------------------
\* Custom split rule
\* ------------------------------------------------------------------------
\* a split pattern that Python takes as true
CustomMode == ck_pattern \notin {"None", ""}

\* the places where a stretch of text without a newline starts, and where
\* the stretch starting at a ends
LineStarts(s) == {a \in 1..Len(s) : s[a] # NL /\ (a = 1 \/ s[a - 1] = NL)}

LineEnd(s, a) ==
    CHOOSE b \in a..Len(s) :
        /\ \A k \in a..b : s[k] # NL
        /\ (b = Len(s) \/ s[b + 1] = NL)

NonBlank(s) == s # <<>>

\* the trimmed non-blank newline-free stretches of a text, left to right
Lines(s) ==
    LET starts == LineStarts(s)
        nth(i) == CHOOSE a \in starts : Cardinality({x \in starts : x < a}) = i - 1
    IN SelectSeq([i \in 1..Cardinality(starts) |->
                     strip(SubSeq(s, nth(i), LineEnd(s, nth(i))))], NonBlank)

\* str.split(pattern): the text cut at every occurrence of the pattern taken
\* character by character; no text over Alphabet holds a backslash, an n or
\* a plus sign
LiteralSplit(pattern, s) ==
    IF pattern = "\n" THEN EachNewlineSplit(s, <<>>) ELSE <<s>>

C23_GreedyStrictBound ==
    (ck_pc = "done" /\ DefaultMode) =>
        /\ \A i \in 1..(Len(ck_chunks) - 1) :
              word_count(ck_chunks[i]) + word_count(SentencesOf(ck_chunks[i + 1])[1])
                  > max_words_per_chunk
        /\ \A i \in 1..Len(ck_chunks) :
              Len(SentencesOf(ck_chunks[i])) > 1 =>
                  word_count(ck_chunks[i]) <= max_words_per_chunk

\* a chunk of exactly 200 words was closed by a sentence of one word
C23_Witness ==
    /\ ck_pc = "done" /\ DefaultMode
    /\ Len(ck_chunks) = 2
    /\ word_count(ck_chunks[1]) = max_words_per_chunk
    /\ word_count(ck_chunks[2]) = 1

\* a chunk that holds text and neither starts nor ends with whitespace
Trimmed(chunk) == chunk # <<>> /\ strip(chunk) = chunk

\* C25: every chunk the chunker returns, under a custom rule and under the
\* default one, holds text and has no whitespace at either end; no inference
\* is run on a blank chunk and no result is yielded for one.
C25_NoBlankChunk ==
    /\ ck_pc = "done" => \A i \in 1..Len(ck_chunks) : Trimmed(ck_chunks[i])
    /\ \A k \in 1..Len(infer_log) :
          infer_log[k].callee = "f5tts.infer" => strip(infer_log[k].gen_text) # <<>>
    /\ gen.cls = "F5TTSBackend" =>
          \A m \in 1..Len(received) : strip(received[m].graphemes) # <<>>

\* a custom rule cut a text with a blank segment and a padded one in two chunks
C25_Witness ==
    /\ ck_pc = "done" /\ ck_pattern = "\n" /\ Len(ck_chunks) = 2
    /\ \E k \in 1..(Len(ck_text) - 1) : ck_text[k] = NL /\ ck_text[k + 1] = NL
    /\ \E k \in 1..(Len(ck_text) - 1) : ck_text[k] = SP /\ ck_text[k + 1] = NL

\* the default chunker returned a chunk for a text that starts and ends blank
C25_DefaultPadded ==
    /\ ck_pc = "done" /\ DefaultMode /\ Len(ck_chunks) = 1
    /\ Len(ck_text) >= 3 /\ isspace(ck_text[1]) /\ isspace(ck_text[Len(ck_text)])

\* ------------------------------------------------------------------------
\* Web server (webui/backend/main.py): configuration of a job
\* ------------------------------------------------------------------------
\* A dict is a function whose DOMAIN is the set of its keys.  A message is a
\* sequence of fragments, as for exceptions.

\* dict.get(key, default)
dict_get(dict, key, default) == IF key \in DOMAIN dict THEN dict[key] ELSE default

\* key_mapping of _convert_camel_to_snake, for the keys a request carries
key_mapping ==
    [outputFormat |-> "output_format", generateSubtitles |-> "generate_subtitles",
     voiceFormula |-> "voice_formula", referenceAudio |-> "reference_audio",
     referenceText |-> "reference_text", useGpu |-> "use_gpu"]

\* key_mapping.get(key, key)
new_key(key) == dict_get(key_mapping, key, key)

\* _convert_camel_to_snake(config), for a config that does not carry both
\* forms of one key
convert_camel_to_snake(config) ==
    [k \in {new_key(key) : key \in DOMAIN config} |->
        config[CHOOSE key \in DOMAIN config : new_key(key) = k]]

\* truth value of a configuration value
Truthy(v) == v \notin {None, "", "false"}

\* Path(file_path).suffix.lower()
suffix(file_path) ==
    IF file_path = "book.txt" THEN ".txt"
    ELSE IF file_path = "book.epub" THEN ".epub"
    ELSE IF file_path = "book.docx" THEN ".docx"
    ELSE ""

\* lines 484-501: the suffixes run_conversion extracts text from
SupportedSuffixes == {".epub", ".pdf", ".txt", ".md"}

\* line 515: the key run_conversion reads the reference audio from
reference_audio_key == "referenceAudio"

\* lines 513-521: the voice run_conversion passes to the backend
select_voice(config, backend) ==
    LET voice == dict_get(config, "voice", "af_heart")
        voice_formula == dict_get(config, "voice_formula", None)
        reference_audio == dict_get(config, reference_audio_key, None)
    IN IF Truthy(voice_formula) /\ supports_voice_mixing(backend) THEN voice_formula
       ELSE IF Truthy(reference_audio) THEN reference_audio
       ELSE voice

\* ------------------------------------------------------------------------
\* Web server: JobManager
\* ------------------------------------------------------------------------
\* the value None of the field "error"
ErrorNone == <<None>>

\* the dict create_job stores, lines 166-176; the key stands for "id"
NewJob(config) ==
    [status |-> "pending", config |-> config, progress |-> 0, logs |-> <<>>,
     output_files |-> <<>>, error |-> ErrorNone]

\* the dict debug_log stores for an unknown job id, lines 987-997
DebugJob ==
    [status |-> "debug", config |-> <<>>, progress |-> 0, logs |-> <<>>,
     output_files |-> <<>>, error |-> ErrorNone]

\* websocket.send_json(msg) on the connection of client c: delivered while
\* the peer is there, an exception once the peer has gone
Sendable(cs, c) == cs[c].state = "open"
send_json(cs, c, msg) ==
    IF Sendable(cs, c) THEN [cs EXCEPT ![c].inbox = Append(@, msg)] ELSE cs

\* JobManager.add_log, lines 188-206; n stands for the timestamp of the
\* entry.  An exception of the send is caught and logged.
add_log(js, ws, cs, job_id, message, level) ==
    IF job_id \notin DOMAIN js THEN [jobs |-> js, conns |-> cs]
    ELSE LET log_entry == [n |-> Len(js[job_id].logs) + 1, level |-> level,
                           message |-> message]
         IN [jobs |-> [js EXCEPT ![job_id].logs = Append(@, log_entry)],
             conns |-> IF job_id \in DOMAIN ws
                       THEN send_json(cs, ws[job_id],
                                      [type |-> "log", data |-> log_entry])
                       ELSE cs]

\* JobManager.update_progress, lines 208-221
update_progress(js, ws, cs, job_id, progress) ==
    IF job_id \notin DOMAIN js THEN [jobs |-> js, conns |-> cs]
    ELSE [jobs |-> [js EXCEPT ![job_id].progress = progress],
          conns |-> IF job_id \in DOMAIN ws
                    THEN send_json(cs, ws[job_id],
                                   [type |-> "progress", data |-> progress])
                    ELSE cs]

\* variant: the progress is not capped and counts in hundreds
chunk_progress_Uncapped(n) == n * 100

\* min(90, (i + 1) * 10) for the i-th result counted from 1
chunk_progress(n) == IF n * 10 < 90 THEN n * 10 ELSE 90

\* ------------------------------------------------------------------------
\* Web server: start_conversion and the task run_conversion
\* ------------------------------------------------------------------------
\* The server runs on one event loop: a task runs alone until an await
\* suspends it.  The only awaits of run_conversion are those of add_log and
\* update_progress, and these two await nothing but the send_json of lines
\* 201 and 215, which is reached only when the job has a slot in
\* job_manager.websockets.  Each action below is the code of run_conversion
\* from after one call of add_log or update_progress up to and including the
\* next one; the task keeps the loop (held) after a call that sent nothing
\* and may be suspended after one that sent.
MaxResults == 1

JobIds == {"j1", "j2"}

\* the task asyncio.create_task makes for run_conversion(job_id); posted
\* keeps the config_json the job was requested with
NewTask(config_json) ==
    [pc |-> "start", exc |-> NoExc, backend |-> NoAdapter, voice |-> None,
     n |-> 0, sample_rate |-> NoRate, held |-> FALSE, posted |-> config_json]

\* no task is between two awaits: the loop can run another handler or task
LoopFree == \A k \in DOMAIN tasks : ~tasks[k].held

\* the call of add_log or update_progress for job_id reaches an await
Awaited(job_id) == job_id \in DOMAIN websockets

\* the state after the task of job_id logged message and went on to pc
Logged(job_id, js, message, level, pc) ==
    LET r == add_log(js, websockets, conns, job_id, message, level) IN
    /\ jobs' = r.jobs
    /\ conns' = r.conns
    /\ tasks' = [tasks EXCEPT ![job_id].pc = pc, ![job_id].held = ~Awaited(job_id)]

\* the state after the task of job_id reported progress and went on to pc
Progressed(job_id, progress, pc) ==
    LET r == update_progress(jobs, websockets, conns, job_id, progress) IN
    /\ jobs' = r.jobs
    /\ conns' = r.conns
    /\ tasks' = [tasks EXCEPT ![job_id].pc = pc, ![job_id].held = ~Awaited(job_id)]

\* lines 665-667: an exception e raised in the try block is logged and
\* reported in the log of the job
Caught(job_id, e) ==
    LET r == add_log(jobs, websockets, conns, job_id, <<"Error: ">> \o e.msg, "error") IN
    /\ jobs' = r.jobs
    /\ conns' = r.conns
    /\ tasks' = [tasks EXCEPT ![job_id].pc = "failing", ![job_id].exc = e,
                              ![job_id].held = ~Awaited(job_id)]

\* the task of job_id is at pc and the loop runs it
At(job_id, pc) ==
    /\ job_id \in DOMAIN tasks
    /\ tasks[job_id].pc = pc
    /\ \A k \in DOMAIN tasks \ {job_id} : ~tasks[k].held

\* POST /api/convert, lines 438-461: the job is created under a fresh uuid
\* and its task is scheduled
StartConversionOf(job_ids, requests) ==
    \E job_id \in job_ids, request \in requests :
        /\ LoopFree
        /\ job_id \notin DOMAIN jobs
        /\ jobs' = (job_id :> NewJob(("file_path" :> request.file_path)
                                     @@ convert_camel_to_snake(request.config)))
                   @@ jobs
        /\ tasks' = (job_id :> NewTask(request.config)) @@ tasks
        /\ UNCHANGED <<websockets, conns, debug_posted, fvars, svars, ckvars>>

\* lines 466-474
Start(job_id) ==
    /\ At(job_id, "start")
    /\ Logged(job_id, [jobs EXCEPT ![job_id].status = "processing"],
              <<"Starting TTS conversion...">>, "info", "load")
    /\ UNCHANGED <<websockets, debug_posted, fvars, svars, ckvars>>

\* lines 476-478
LogLoading(job_id) ==
    /\ At(job_id, "load")
    /\ Logged(job_id, jobs, <<"Loading file: ", jobs[job_id].config["file_path"]>>,
              "info", "extract")
    /\ UNCHANGED <<websockets, debug_posted, fvars, svars, ckvars>>

\* lines 480-503: the text is read from a file of a supported type
Extract(job_id) ==
    /\ At(job_id, "extract")
    /\ LET ext == suffix(jobs[job_id].config["file_path"]) IN
       IF ext \in SupportedSuffixes
       THEN \E read \in {"ok", "OSError"} :
               IF read = "ok"
               THEN Logged(job_id, jobs, <<"Extracted ", "<n>", " characters">>,
                           "info", "engine_log")
               ELSE Caught(job_id, LibraryExc(read))
       ELSE Caught(job_id, Raise("ValueError", <<"Unsupported file type: ", ext>>))
    /\ UNCHANGED <<websockets, debug_posted, fvars, svars, ckvars>>

\* lines 505-507
LogEngine(job_id) ==
    /\ At(job_id, "engine_log")
    /\ Logged(job_id, jobs,
              <<"Loading ", dict_get(jobs[job_id].config, "engine", "kokoro"),
                " engine...">>, "info", "engine")
    /\ UNCHANGED <<websockets, debug_posted, fvars, svars, ckvars>>

\* how the imports of the engines can end on the server
WebEnvs == {OkEnv, [OkEnv EXCEPT !.kokoro_import = "ImportError",
                                 !.f5_import = "ImportError"]}

\* lines 509-523: the engine is created and the voice is chosen
CreateBackend(job_id) ==
    /\ At(job_id, "engine")
    /\ \E env \in WebEnvs :
         LET config == jobs[job_id].config
             engine == dict_get(config, "engine", "kokoro")
             device == IF Truthy(dict_get(config, "use_gpu", "false"))
                       THEN "cuda" ELSE "cpu"
             call == create_tts_engine(ENGINE_REGISTRY, engine, "en-us", device,
                                       NoKwargs, env)
         IN IF call.status = "raised"
            THEN Caught(job_id, call.exc)
            ELSE LET voice == select_voice(config, call.adapter)
                     r == add_log(jobs, websockets, conns, job_id,
                                  <<"Using voice: ", voice>>, "info")
                 IN /\ jobs' = r.jobs
                    /\ conns' = r.conns
                    /\ tasks' = [tasks EXCEPT ![job_id].pc = "generate_log",
                                              ![job_id].held = ~Awaited(job_id),
                                              ![job_id].backend = call.adapter,
                                              ![job_id].voice = voice]
    /\ UNCHANGED <<websockets, debug_posted, fvars, svars, ckvars>>

\* lines 525-527
LogGenerating(job_id) ==
    /\ At(job_id, "generate_log")
    /\ Logged(job_id, jobs, <<"Generating audio at ", "<speed>", "x speed...">>,
              "info", "pull")
    /\ UNCHANGED <<websockets, debug_posted, fvars, svars, ckvars>>

\* how a next() on backend(text, voice, speed, None) can end: a result, the
\* end of the sequence, the ValueError of a voice that does not resolve (at
\* the first next() only), the RuntimeError of a failed inference
BackendOutcomes(t) ==
    (IF t.n < MaxResults THEN {"result"} ELSE {})
    \cup {"end", "RuntimeError"}
    \cup (IF t.n = 0 THEN {"ValueError"} ELSE {})

\* lines 529-564 and 567: one turn of the loop over the results up to the
\* await of update_progress, or the end of the loop
PullResult(job_id) ==
    /\ At(job_id, "pull")
    /\ \E outcome \in BackendOutcomes(tasks[job_id]) :
         LET t == tasks[job_id] IN
         CASE outcome = "result" ->
                LET r == update_progress(jobs, websockets, conns, job_id,
                                         chunk_progress(t.n + 1))
                IN /\ jobs' = r.jobs
                   /\ conns' = r.conns
                   /\ tasks' = [tasks EXCEPT
                                  ![job_id].pc = "chunk_log",
                                  ![job_id].held = ~Awaited(job_id),
                                  ![job_id].n = t.n + 1,
                                  ![job_id].sample_rate =
                                      IF t.sample_rate = NoRate
                                      THEN t.backend.lib_rate ELSE t.sample_rate]
           [] outcome = "end" ->
                Logged(job_id, jobs, <<"Generated ", ToString(t.n), " audio chunks">>,
                       "info", "check")
           [] OTHER -> Caught(job_id, LibraryExc(outcome))
    /\ UNCHANGED <<websockets, debug_posted, fvars, svars, ckvars>>

\* line 565
LogChunk(job_id) ==
    /\ At(job_id, "chunk_log")
    /\ Logged(job_id, jobs, <<"Generated chunk ", ToString(tasks[job_id].n)>>,
              "debug", "pull")
    /\ UNCHANGED <<websockets, debug_posted, fvars, svars, ckvars>>

\* lines 569-583
CheckAudio(job_id) ==
    /\ At(job_id, "check")
    /\ IF tasks[job_id].n = 0
       THEN Caught(job_id, Raise("ValueError",
                <<"No audio was generated; check input text and engine configuration.">>))
       ELSE IF tasks[job_id].sample_rate = NoRate
            THEN Caught(job_id, Raise("ValueError",
                     <<"Sample rate missing from TTS backend output.">>))
            ELSE Logged(job_id, jobs, <<"DEBUG: Output format: ", "...">>, "info",
                        "encode_log")
    /\ UNCHANGED <<websockets, debug_posted, fvars, svars, ckvars>>

\* lines 585-593
LogEncoding(job_id) ==
    /\ At(job_id, "encode_log")
    /\ Logged(job_id, jobs, <<"Encoding audio...">>, "info", "write")
    /\ UNCHANGED <<websockets, debug_posted, fvars, svars, ckvars>>

\* lines 595-602 and 616-620: the WAV file is written; it is renamed when WAV
\* is the requested format, converted otherwise
WriteAudio(job_id) ==
    /\ At(job_id, "write")
    /\ \E write \in {"ok", "OSError"} :
         LET output_format == dict_get(jobs[job_id].config, "output_format", "wav") IN
         IF write # "ok" THEN Caught(job_id, LibraryExc(write))
         ELSE IF output_format # "wav"
              THEN Logged(job_id, jobs, <<"Converting to ", output_format, "...">>,
                          "info", "ffmpeg")
              ELSE Progressed(job_id, 95, "encoded")
    /\ UNCHANGED <<websockets, debug_posted, fvars, svars, ckvars>>

\* lines 603-615 and 620: ffmpeg converts the file; its failure is logged
\* and raised again, any other exception goes to the handler at once
Convert(job_id) ==
    /\ At(job_id, "ffmpeg")
    /\ \E run \in {"ok", "CalledProcessError", "OSError"} :
         CASE run = "ok" ->
                Progressed(job_id, 95, "encoded")
           [] run = "CalledProcessError" ->
                LET r == add_log(jobs, websockets, conns, job_id,
                                 <<"FFmpeg error: ", "<stderr>">>, "error") IN
                /\ jobs' = r.jobs
                /\ conns' = r.conns
                /\ tasks' = [tasks EXCEPT ![job_id].pc = "reraise",
                                          ![job_id].held = ~Awaited(job_id),
                                          ![job_id].exc = LibraryExc(run)]
           [] OTHER -> Caught(job_id, LibraryExc(run))
    /\ UNCHANGED <<websockets, debug_posted, fvars, svars, ckvars>>

\* lines 615 and 665-667: the raise after the FFmpeg error was logged
Reraise(job_id) ==
    /\ At(job_id, "reraise")
    /\ Caught(job_id, tasks[job_id].exc)
    /\ UNCHANGED <<websockets, debug_posted, fvars, svars, ckvars>>

\* line 621
LogEncoded(job_id) ==
    /\ At(job_id, "encoded")
    /\ Logged(job_id, jobs, <<"Encoding complete!">>, "info", "files")
    /\ UNCHANGED <<websockets, debug_posted, fvars, svars, ckvars>>

\* the entry of output_files for the audio file
AudioFile == [name |-> "audio", type |-> "audio"]

\* lines 623-626 and 641-655: subtitles are announced when they are enabled and the
\* results carried graphemes; otherwise the output files are collected and
\* the progress is set to 100
CollectFiles(job_id) ==
    /\ At(job_id, "files")
    /\ \E subtitle_entries \in BOOLEAN :
         IF /\ dict_get(jobs[job_id].config, "generate_subtitles", "disabled") # "disabled"
            /\ subtitle_entries
         THEN Logged(job_id, jobs, <<"Generating ", "srt", " subtitles...">>, "info",
                     "subtitles")
         ELSE Progressed(job_id, 100, "complete_log")
    /\ UNCHANGED <<websockets, debug_posted, fvars, svars, ckvars>>

\* lines 627-655: the subtitle file is written, the output files are
\* collected and the progress is set to 100
WriteSubtitles(job_id) ==
    /\ At(job_id, "subtitles")
    /\ \E write \in {"ok", "OSError"} :
         IF write # "ok" THEN Caught(job_id, LibraryExc(write))
         ELSE Progressed(job_id, 100, "complete_log")
    /\ UNCHANGED <<websockets, debug_posted, fvars, svars, ckvars>>

\* line 656
LogComplete(job_id) ==
    /\ At(job_id, "complete_log")
    /\ Logged(job_id, jobs, <<"Conversion complete!">>, "success", "complete")
    /\ UNCHANGED <<websockets, debug_posted, fvars, svars, ckvars>>

\* lines 658-663: update_job(job_id, status="completed", output_files=...)
Complete(job_id) ==
    /\ At(job_id, "complete")
    /\ jobs' = [jobs EXCEPT ![job_id].status = "completed",
                            ![job_id].output_files = <<AudioFile>>]
    /\ tasks' = [tasks EXCEPT ![job_id].pc = "returned", ![job_id].held = FALSE]
    /\ UNCHANGED <<websockets, conns, debug_posted, fvars, svars, ckvars>>

\* variant: the handler leaves the status as it is
FailedStatus_Unchanged(status) == status

\* the status the handler of run_conversion sets, line 668
FailedStatus(status) == "failed"

\* line 668: update_job(job_id, status="failed", error=str(e))
Fail(job_id) ==
    /\ At(job_id, "failing")
    /\ jobs' = [jobs EXCEPT ![job_id].status = FailedStatus(@),
                            ![job_id].error = tasks[job_id].exc.msg]
    /\ tasks' = [tasks EXCEPT ![job_id].pc = "returned", ![job_id].held = FALSE]
    /\ UNCHANGED <<websockets, conns, debug_posted, fvars, svars, ckvars>>

\* ------------------------------------------------------------------------
\* Web server: websocket_endpoint and debug_log
\* ------------------------------------------------------------------------
\* A connection is "idle" before the client opens it, "open" while the
\* handler waits in receive_text, "gone" once the peer has left and the
\* handler has not run yet, "closed" after the handler returned.  Nothing of
\* job_manager is read or written before the await of line 879 returns, so
\* the handler is modelled from there.  Keep-alive texts and timeouts of the
\* receive loop change nothing in job_manager and are left out.

\* the dict sent as data of the init message: the job as it is now
Snapshot(job) == job

\* lines 880-886: the connection takes the slot of its job and the job, if
\* there is one, is sent as the init message
websocket_endpoint(ws, cs, js, c, job_id) ==
    LET opened == [cs EXCEPT ![c].state = "open", ![c].job_id = job_id]
    IN [websockets |-> (job_id :> c) @@ ws,
        conns |-> IF job_id \in DOMAIN js
                  THEN send_json(opened, c,
                                 [type |-> "init", data |-> Snapshot(js[job_id])])
                  ELSE opened]

\* a client opens /ws/{job_id}
ConnectOf(c, job_ids) ==
    \E job_id \in job_ids :
        /\ LoopFree
        /\ conns[c].state = "idle"
        /\ LET r == websocket_endpoint(websockets, conns, jobs, c, job_id) IN
           /\ websockets' = r.websockets
           /\ conns' = r.conns
        /\ UNCHANGED <<jobs, tasks, debug_posted, fvars, svars, ckvars>>

\* the peer closes the connection or is lost, and the loop learns of it
ClientLeaves(c) ==
    /\ LoopFree
    /\ conns[c].state = "open"
    /\ conns' = [conns EXCEPT ![c].state = "gone"]
    /\ UNCHANGED <<jobs, websockets, tasks, debug_posted, fvars, svars, ckvars>>

\* del job_manager.websockets[job_id]
del(dict, key) == [k \in DOMAIN dict \ {key} |-> dict[k]]

\* lines 901-908: receive_text raised for the lost peer; the slot of the job
\* is deleted if there is one
Disconnected(c) ==
    /\ LoopFree
    /\ conns[c].state = "gone"
    /\ websockets' = IF conns[c].job_id \in DOMAIN websockets
                     THEN del(websockets, conns[c].job_id) ELSE websockets
    /\ conns' = [conns EXCEPT ![c].state = "closed"]
    /\ UNCHANGED <<jobs, tasks, debug_posted, fvars, svars, ckvars>>

\* the messages a tester posts to /api/debug/log, each once
DebugMessages == {"Test info message"}

\* POST /api/debug/log, lines 978-1003
DebugLogOf(job_ids, levels) ==
    \E job_id \in job_ids, level \in levels, message \in DebugMessages \ debug_posted :
        /\ LoopFree
        /\ debug_posted' = debug_posted \cup {message}
        /\ LET js == IF job_id \in DOMAIN jobs THEN jobs
                     ELSE (job_id :> DebugJob) @@ jobs
               r == add_log(js, websockets, conns, job_id, <<message>>, level)
           IN /\ jobs' = r.jobs
              /\ conns' = r.conns
        /\ UNCHANGED <<websockets, tasks, fvars, svars, ckvars>>

\* ------------------------------------------------------------------------
\* Specification of the web server
\* ------------------------------------------------------------------------
InitWeb ==
    /\ WebIdle
    /\ FactoryIdle
    /\ SynthIdle
    /\ ChunkerIdle

\* the conversions a client requests: a file of an unsupported type, and a
\* text file converted by the cloning engine to MP3 with subtitles
Unsupported == [file_path |-> "book.docx", config |-> ("engine" :> "kokoro")]
WebRequests ==
    { Unsupported,
      [file_path |-> "book.txt",
       config |-> ("engine" :> "f5_tts" @@ "outputFormat" :> "mp3"
                   @@ "generateSubtitles" :> "line")] }

StartConversion == StartConversionOf(JobIds, WebRequests)

\* one step of the task of a job
RunConversion(job_id) ==
    \/ Start(job_id)
    \/ LogLoading(job_id)
    \/ Extract(job_id)
    \/ LogEngine(job_id)
    \/ CreateBackend(job_id)
    \/ LogGenerating(job_id)
    \/ PullResult(job_id)
    \/ LogChunk(job_id)
    \/ CheckAudio(job_id)
    \/ LogEncoding(job_id)
    \/ WriteAudio(job_id)
    \/ Convert(job_id)
    \/ Reraise(job_id)
    \/ LogEncoded(job_id)
    \/ CollectFiles(job_id)
    \/ WriteSubtitles(job_id)
    \/ LogComplete(job_id)
    \/ Complete(job_id)
    \/ Fail(job_id)

Connect(c) == ConnectOf(c, JobIds)
DebugLog == DebugLogOf(JobIds, {"error"})

\* two jobs, a client that opens a WebSocket for one of them, and a debug
\* log request
NextWeb ==
    \/ StartConversion
    \/ \E job_id \in JobIds : RunConversion(job_id)
    \/ Connect("c1")
    \/ DebugLog

SpecWeb == InitWeb /\ [][NextWeb]_vars

\* the same jobs and client without the debug request; the loop runs every
\* task that is ready
NextWebFair ==
    \/ StartConversion
    \/ \E job_id \in JobIds : RunConversion(job_id)
    \/ Connect("c1")

SpecWebFair ==
    /\ InitWeb
    /\ [][NextWebFair]_vars
    /\ \A job_id \in JobIds : WF_vars(RunConversion(job_id))

\* ------------------------------------------------------------------------
\* Specification of the log stream of one job
\* ------------------------------------------------------------------------
\* one job, whose file type is not supported, two clients that connect
\* and leave, and a debug log request
StartUnsupported == StartConversionOf({"j1"}, {Unsupported})
ConnectJob(c) == ConnectOf(c, {"j1"})
DebugLogJob == DebugLogOf({"j1"}, {"info"})

NextLogs ==
    \/ StartUnsupported
    \/ Start("j1")
    \/ LogLoading("j1")
    \/ Extract("j1")
    \/ Fail("j1")
    \/ \E c \in Clients : ConnectJob(c) \/ ClientLeaves(c) \/ Disconnected(c)
    \/ DebugLogJob

SpecLogs == InitWeb /\ [][NextLogs]_vars

\* ------------------------------------------------------------------------
\* Specification of the voice of one job
\* ------------------------------------------------------------------------
\* the request of /api/convert with its keys in either form
VoiceConfigs ==
    { engine @@ voice @@ formula @@ reference :
        engine \in {"engine" :> "kokoro", "engine" :> "f5_tts"},
        voice \in {<<>>, "voice" :> "am_adam"},
        formula \in {<<>>, "voiceFormula" :> Formula, "voice_formula" :> Formula,
                     "voice_formula" :> ""},
        reference \in {<<>>, "referenceAudio" :> "ref.wav",
                       "reference_audio" :> "ref.wav"} }

VoiceRequests ==
    { [file_path |-> "book.txt", config |-> config] : config \in VoiceConfigs }
    \cup { [file_path |-> "book.txt",
            config |-> ("outputFormat" :> "mp3" @@ "generateSubtitles" :> "line")] }

StartVoice == StartConversionOf({"j1"}, VoiceRequests)

NextVoice == StartVoice \/ RunConversion("j1")

SpecVoice == InitWeb /\ [][NextVoice]_vars

\* ------------------------------------------------------------------------
\* Web server claims
\* ------------------------------------------------------------------------
\* the log of a job holds the entry the handler of run_conversion writes
HasErrorLog(job) ==
    \E k \in 1..Len(job.logs) :
        job.logs[k].level = "error" /\ Contains(job.logs[k].message, <<"Error: ">>)

\* an exception of the task of job_id has reached the handler of line 665
Failing(job_id) == job_id \in DOMAIN tasks /\ tasks[job_id].pc = "failing"

\* the task of job_id returned and left the job failed with its error
FailedJob(job_id) ==
    /\ job_id \in DOMAIN tasks /\ tasks[job_id].pc = "returned"
    /\ jobs[job_id].status = "failed"
    /\ jobs[job_id].error # ErrorNone
    /\ HasErrorLog(jobs[job_id])

\* a step of the task of one job leaves every other job and task as it is
OnlyOwnJob ==
    \A job_id \in DOMAIN tasks :
        tasks'[job_id] # tasks[job_id] =>
            \A k \in DOMAIN jobs \ {job_id} :
                /\ jobs'[k] = jobs[k]
                /\ k \in DOMAIN tasks => tasks'[k] = tasks[k]

\* C26: once an exception of a conversion job has reached the handler of
\* its task, the job eventually is failed, with an error that is not None
\* and an error entry in its log, and its task has returned; no step of a
\* task changes another job or another task.
C26_FailureFatalOnlyToJob ==
    /\ \A job_id \in JobIds : Failing(job_id) ~> FailedJob(job_id)
    /\ [][OnlyOwnJob]_vars

\* one job has failed and the other one was completed after it
C26_Witness ==
    /\ FailedJob("j1")
    /\ "j2" \in DOMAIN jobs /\ jobs["j2"].status = "completed"
    /\ jobs["j1"].error = <<"No audio was generated; check input text and engine configuration.">>

\* the moves of the status of a conversion job
StatusMoves ==
    {<<"pending", "processing">>, <<"processing", "completed">>,
     <<"processing", "failed">>}

\* the moves of the progress of a conversion job
ProgressMove(a, b) ==
    \/ a < b /\ b <= 90
    \/ a <= 90 /\ b = 95
    \/ a = 95 /\ b = 100

SnapshotLen(c) ==
    IF conns[c].inbox # <<>> /\ conns[c].inbox[1].type = "init"
    THEN Len(conns[c].inbox[1].data.logs) ELSE 0

\* the number of log messages for entry e in the inbox of client c
TimesSent(c, e) ==
    Cardinality({m \in 1..Len(conns[c].inbox) :
                    conns[c].inbox[m].type = "log" /\ conns[c].inbox[m].data = e})

\* the number of times client c was shown the k-th entry of the log of job
TimesObserved(c, job, k) ==
    (IF k <= SnapshotLen(c) THEN 1 ELSE 0) + TimesSent(c, job.logs[k])

\* the WebSocket of client c is open for a job that exists
Watching(c) == conns[c].state = "open" /\ conns[c].job_id \in DOMAIN jobs

\* C28: a client whose WebSocket is open has been shown every entry of the
\* log of its job exactly once, in the init message or as a log message.
C28_EveryEntryExactlyOnce ==
    \A c \in Clients :
        Watching(c) =>
            \A k \in 1..Len(jobs[conns[c].job_id].logs) :
                TimesObserved(c, jobs[conns[c].job_id], k) = 1

\* no entry is shown twice, and every log message a client received is an
\* entry of the stored log of its job
C28_AtMostOnceAndStored ==
    \A c \in Clients :
        conns[c].job_id \in DOMAIN jobs =>
            /\ \A k \in 1..Len(jobs[conns[c].job_id].logs) :
                  TimesObserved(c, jobs[conns[c].job_id], k) <= 1
            /\ \A m \in 1..Len(conns[c].inbox) :
                  conns[c].inbox[m].type = "log" =>
                      \E k \in 1..Len(jobs[conns[c].job_id].logs) :
                          jobs[conns[c].job_id].logs[k] = conns[c].inbox[m].data

\* while no other client has opened a WebSocket, a client has been shown
\* every entry exactly once
C28_SoleClientExactlyOnce ==
    \A c \in Clients :
        (Watching(c) /\ \A d \in Clients \ {c} : conns[d].state = "idle") =>
            \A k \in 1..Len(jobs[conns[c].job_id].logs) :
                TimesObserved(c, jobs[conns[c].job_id], k) = 1

\* C29: a client whose WebSocket is open has received, as a log message,
\* every entry added to the log of its job since its connection was
\* registered.
C29_EveryLogSentWhileConnected ==
    \A c \in Clients :
        Watching(c) =>
            \A k \in (SnapshotLen(c) + 1)..Len(jobs[conns[c].job_id].logs) :
                TimesSent(c, jobs[conns[c].job_id].logs[k]) >= 1

\* the value a request carries under either form of a key, None without it
Posted(config_json, camel, snake) ==
    dict_get(config_json, camel, dict_get(config_json, snake, None))

\* the voice of a request: the formula for a backend that mixes voices,
\* else the reference audio, else the voice, "af_heart" without one
RequestedVoice(config_json, backend) ==
    LET voice_formula == Posted(config_json, "voiceFormula", "voice_formula")
        reference_audio == Posted(config_json, "referenceAudio", "reference_audio")
    IN IF Truthy(voice_formula) /\ supports_voice_mixing(backend) THEN voice_formula
       ELSE IF Truthy(reference_audio) THEN reference_audio
       ELSE dict_get(config_json, "voice", "af_heart")

\* the task of job_id has created its backend and chosen the voice
VoiceChosen(job_id) == job_id \in DOMAIN tasks /\ tasks[job_id].backend # NoAdapter

\* C30: the voice a job passes to its backend is the formula of its request
\* when there is one and the backend mixes voices, else the reference audio
\* of the request, else its voice, "af_heart" when it names none.
C30_VoicePassedToBackend ==
    \A job_id \in JobIds :
        VoiceChosen(job_id) =>
            tasks[job_id].voice = RequestedVoice(tasks[job_id].posted, tasks[job_id].backend)

\* a formula is passed only to a backend that mixes voices
C30_FormulaOnlyToMixing ==
    \A job_id \in JobIds :
        (VoiceChosen(job_id) /\ tasks[job_id].voice = Formula) =>
            supports_voice_mixing(tasks[job_id].backend)

====
